---- MODULE Spec2Model ----
(***************************************************************************)
(* Streaming analysis orchestrator of the radiologist application: the     *)
(* analyze-frames POST handler (OpenAI and Gemini variants), the           *)
(* retry/backoff policy withRetry / isRetryableError that wraps the        *)
(* backend call, the best-effort persistence that follows it, the          *)
(* keep-alive timer and a client that disconnects, the reader loop of the  *)
(* upload components that consumes the event stream, and the browser side  *)
(* of a submission: validation, frame extraction (ClientVideoProcessor),   *)
(* DICOM processing (DicomProcessor), the form that is transmitted, and    *)
(* the storage uploads of lib/supabase (batches, retries).                 *)
(***************************************************************************)
EXTENDS Integers, Sequences, FiniteSets, TLC

VARIABLES
    variant,      \* which analyze-frames route runs: "openai" or "gemini"
    opts,         \* the retry options read from the environment
    form,         \* the multipart form of the submission
    backend,      \* how the Analysis Backend answers in this run
    pc,           \* position of the POST handler
    events,       \* data events enqueued on the stream, in order
    heartbeat,    \* the keep-alive interval timer
    closed,       \* controller.close() was called
    tempDir,      \* the per-request frames directory
    batchStart,   \* loop variable of the batch loop
    frames,       \* the frames array of the handler (frame indices)
    rs,           \* the running withRetry call
    invocations,  \* every call of the wrapped backend function so far
    dbWrites,     \* every insert sent to the Record Store so far
    perFrame,     \* number of frame analyses the backend response parsed to
    analysis,     \* what the analyze function returned: urgency, confidences
    fetchFailed,  \* a fetch of a remote frame answered with !response.ok
    keepAlives,   \* every firing of the heartbeat callback so far
    cancelled,    \* the client is gone: the response stream was cancelled
    script,       \* the lines the client's response body is made of
    stream,       \* the characters of that body
    pos,          \* how many of them reader.read() has handed over
    consumer,     \* the reader loop's locals and the state it sets
    clientPc,     \* position of the reader loop
    readFailed,   \* reader.read() rejected
    splitInLine,  \* some chunk ended inside a 'data: ' line
    submission,   \* what the user hands to the upload component
    submitPc,     \* position of handleProceed / handleFile
    ui,           \* onAnalysisStart calls, alerts and network calls so far
    extractor,    \* the closure of ClientVideoProcessor.extractFrames
    dicom,        \* the loop of DicomProcessor.processFiles
    formData,     \* the FormData the component builds
    batches,      \* the run of uploadFramesInBatches
    uploadRetry,  \* the run of uploadWithRetry
    image,        \* the run of DicomProcessor.convertToImage on one buffer
    clock,        \* Date.now() of the server process, in milliseconds
    requests,     \* two requests the route handles at the same time
    disk,         \* the temp directory they share
    rows          \* the analysis_sessions rows they insert

\* The state of the client's reader loop.
client == <<script, stream, pos, consumer, clientPc, readFailed, splitInLine>>

\* The component that submits, up to its POST.
submitter == <<submission, submitPc, ui, extractor, dicom, formData>>

\* The storage uploads of lib/supabase.
storage == <<batches, uploadRetry>>

\* The browser side before the response arrives.
browser == <<submitter, storage, image>>

\* Two requests in one server process, and what they share.
concurrent == <<clock, requests, disk, rows>>

\* What the handler's own steps never touch: the timer callback's record,
\* the state of the connection, the client.
outside == <<keepAlives, cancelled, client, browser, concurrent>>

\* The state of the server side.
server == <<variant, opts, form, backend, pc, events, heartbeat, closed, tempDir,
            batchStart, frames, rs, invocations, dbWrites, perFrame,
            analysis, fetchFailed, keepAlives, cancelled>>

vars == <<server, client, browser, concurrent>>

----------------------------------------------------------------------------
(* Bounds of the model *)

MaxSmallFrames == 2
MaxRetriesBound == 3
MaxPerFrame == 2
MaxTicks == 1
MaxLines == 3
MaxFewFrames == 3
MaxDicomFiles == 3
MaxUploadFrames == 5
MaxUploadRetries == 3
MaxClockMs == 2
MaxPixels == 3

----------------------------------------------------------------------------
(* Program constants *)

BATCH_SIZE == 50
DefaultMaxRetries == 3
DefaultBaseDelayMs == 500
MaxDelayMs == 10000
MetadataSampleSize == 5

----------------------------------------------------------------------------
(* Strings as character sequences, for toLowerCase() and includes() *)

UpperChars ==
    <<"A", "B", "C", "D", "E", "F", "G", "H", "I", "J", "K", "L", "M", "N", "O", "P", "Q", "R", "S", "T", "U", "V", "W", "X", "Y", "Z">>
LowerChars ==
    <<"a", "b", "c", "d", "e", "f", "g", "h", "i", "j", "k", "l", "m", "n", "o", "p", "q", "r", "s", "t", "u", "v", "w", "x", "y", "z">>

ToLowerChar(c) ==
    IF \E i \in 1..Len(UpperChars) : UpperChars[i] = c
    THEN LowerChars[CHOOSE i \in 1..Len(UpperChars) : UpperChars[i] = c]
    ELSE c

ToLowerCase(s) == [i \in 1..Len(s) |-> ToLowerChar(s[i])]

Includes(s, needle) ==
    \E i \in 1..(Len(s) - Len(needle) + 1) :
        SubSeq(s, i, i + Len(needle) - 1) = needle

LF == "\n"
CR == "\r"
Digits == <<"0", "1", "2", "3", "4", "5", "6", "7", "8", "9">>
DigitChars == {Digits[i] : i \in DOMAIN Digits}

\* Number.prototype.toString for a non-negative integer
RECURSIVE NumberToText(_)
NumberToText(n) ==
    IF n < 10 THEN <<Digits[n + 1]>>
    ELSE NumberToText(n \div 10) \o <<Digits[(n % 10) + 1]>>

DigitValue(c) == (CHOOSE i \in DOMAIN Digits : Digits[i] = c) - 1

\* the number a run of digits denotes
RECURSIVE TextToNumber(_)
TextToNumber(t) ==
    IF Len(t) = 1 THEN DigitValue(t[1])
    ELSE 10 * TextToNumber(SubSeq(t, 1, Len(t) - 1)) + DigitValue(t[Len(t)])

WhiteSpace == {" ", LF, CR}

\* String.prototype.trim
Trim(s) ==
    LET keep == {i \in DOMAIN s : s[i] \notin WhiteSpace}
    IN  IF keep = {} THEN << >>
        ELSE SubSeq(s, CHOOSE i \in keep : \A j \in keep : i <= j,
                       CHOOSE i \in keep : \A j \in keep : i >= j)

NeedleTimeout ==
    <<"t", "i", "m", "e", "o", "u", "t">>
NeedleUnavailable ==
    <<"s", "e", "r", "v", "i", "c", "e", " ", "i", "s", " ", "c", "u", "r", "r", "e", "n", "t", "l", "y", " ", "u", "n", "a", "v", "a", "i", "l", "a", "b", "l", "e">>

MsgEmpty == << >>
MsgRequestTimeout ==
    <<"R", "e", "q", "u", "e", "s", "t", " ", "T", "i", "m", "e", "o", "u", "t">>
MsgTimeoutLower ==
    <<"t", "i", "m", "e", "o", "u", "t">>
MsgUnavailable ==
    <<"T", "h", "e", " ", "s", "e", "r", "v", "i", "c", "e", " ", "i", "s", " ", "c", "u", "r", "r", "e", "n", "t", "l", "y", " ", "u", "n", "a", "v", "a", "i", "l", "a", "b", "l", "e", ".">>
MsgUnavailableUpper ==
    <<"S", "E", "R", "V", "I", "C", "E", " ", "I", "S", " ", "C", "U", "R", "R", "E", "N", "T", "L", "Y", " ", "U", "N", "A", "V", "A", "I", "L", "A", "B", "L", "E">>
MsgBadRequest ==
    <<"B", "a", "d", " ", "R", "e", "q", "u", "e", "s", "t">>
MsgTimeOut ==
    <<"t", "i", "m", "e", " ", "o", "u", "t">>
MsgServiceDown ==
    <<"s", "e", "r", "v", "i", "c", "e", " ", "u", "n", "a", "v", "a", "i", "l", "a", "b", "l", "e">>

----------------------------------------------------------------------------
(* Errors the wrapped backend call can throw (ErrorWithCode) *)

\* A status field: absent, a number, or a value that is not a number.
NoStatus == [t |-> "absent", v |-> 0]
NumStatus(n) == [t |-> "num", v |-> n]
StrStatus(n) == [t |-> "str", v |-> n]

\* JavaScript truthiness of a status field (0 and undefined are falsy).
TruthyStatus(s) == s.t = "str" \/ (s.t = "num" /\ s.v # 0)

MkError(status, causeStatus, code, causeCode, message) ==
    [nil |-> FALSE, status |-> status, causeStatus |-> causeStatus,
     code |-> code, causeCode |-> causeCode, message |-> message]

\* A thrown null / undefined.
NilError ==
    [nil |-> TRUE, status |-> NoStatus, causeStatus |-> NoStatus,
     code |-> "", causeCode |-> "", message |-> MsgEmpty]

NoError == MkError(NoStatus, NoStatus, "", "", MsgEmpty)

StatusSamples ==
    {NoStatus, NumStatus(0), NumStatus(400), NumStatus(429), NumStatus(499),
     NumStatus(500), NumStatus(503), StrStatus(503)}
CauseStatusSamples == {NoStatus, NumStatus(400), NumStatus(429), NumStatus(503)}
CodeSamples ==
    {"", "ETIMEDOUT", "ECONNRESET", "ENOTFOUND", "EAI_AGAIN", "ECONNREFUSED"}
CauseCodeSamples == {"", "ETIMEDOUT", "EPIPE"}
MessageSamples ==
    {MsgEmpty, MsgRequestTimeout, MsgTimeoutLower, MsgUnavailable,
     MsgUnavailableUpper, MsgBadRequest, MsgTimeOut, MsgServiceDown}

ErrorSamples ==
    {NilError}
    \cup {MkError(s, cs, "", "", MsgEmpty) :
            s \in StatusSamples, cs \in CauseStatusSamples}
    \cup {MkError(s, NoStatus, c, cc, MsgEmpty) :
            s \in {NoStatus, NumStatus(400)}, c \in CodeSamples,
            cc \in CauseCodeSamples}
    \cup {MkError(s, NoStatus, "", "", m) :
            s \in {NoStatus, NumStatus(400)}, m \in MessageSamples}

----------------------------------------------------------------------------
(* isRetryableError *)

transientNodeErrors == {"ETIMEDOUT", "ECONNRESET", "ENOTFOUND", "EAI_AGAIN"}

\* err && (err.code || err.cause?.code)
ErrCode(err) ==
    IF err.nil THEN ""
    ELSE IF err.code # "" THEN err.code ELSE err.causeCode

\* err && (err.status || err.cause?.status)
ErrStatus(err) ==
    IF err.nil THEN NoStatus
    ELSE IF TruthyStatus(err.status) THEN err.status ELSE err.causeStatus

\* Variant: the message is matched without lower-casing it.
ErrMsg_NoLowerCase(err) == IF err.nil THEN MsgEmpty ELSE err.message

\* String(err?.message || '').toLowerCase()
ErrMsg(err) == IF err.nil THEN MsgEmpty ELSE ToLowerCase(err.message)

\* Variant: every status from 400 up counts as a server error.
isRetryableError_ClientErrors(err) ==
    LET code == ErrCode(err)
        status == ErrStatus(err)
        msg == ErrMsg(err)
    IN  IF status.t = "num" /\ status.v = 429
        THEN [retryable |-> TRUE, reason |-> "rate_limited"]
        ELSE IF status.t = "num" /\ status.v >= 400
        THEN [retryable |-> TRUE, reason |-> "server_error"]
        ELSE IF code # "" /\ code \in transientNodeErrors
        THEN [retryable |-> TRUE, reason |-> code]
        ELSE IF Includes(msg, NeedleUnavailable) \/ Includes(msg, NeedleTimeout)
        THEN [retryable |-> TRUE, reason |-> "transient_message"]
        ELSE [retryable |-> FALSE, reason |-> "non_retryable"]

isRetryableError(err) ==
    LET code == ErrCode(err)
        status == ErrStatus(err)
        msg == ErrMsg(err)
    IN  IF status.t = "num" /\ status.v = 429
        THEN [retryable |-> TRUE, reason |-> "rate_limited"]
        ELSE IF status.t = "num" /\ status.v >= 500
        THEN [retryable |-> TRUE, reason |-> "server_error"]
        ELSE IF code # "" /\ code \in transientNodeErrors
        THEN [retryable |-> TRUE, reason |-> code]
        ELSE IF Includes(msg, NeedleUnavailable) \/ Includes(msg, NeedleTimeout)
        THEN [retryable |-> TRUE, reason |-> "transient_message"]
        ELSE [retryable |-> FALSE, reason |-> "non_retryable"]

----------------------------------------------------------------------------
(* withRetry *)

\* A numeric option: Number.isFinite(x) and its value.
Finite(n) == [finite |-> TRUE, v |-> n]
NotFinite == [finite |-> FALSE, v |-> 0]

\* const maxRetries = Number.isFinite(opts?.maxRetries) ? opts.maxRetries : 3
maxRetries == IF opts.maxRetries.finite THEN opts.maxRetries.v ELSE DefaultMaxRetries

\* const baseDelay = Number.isFinite(opts?.baseDelayMs) ? opts.baseDelayMs : 500
baseDelay == IF opts.baseDelayMs.finite THEN opts.baseDelayMs.v ELSE DefaultBaseDelayMs

RECURSIVE Pow2(_)
Pow2(n) == IF n <= 0 THEN 1 ELSE 2 * Pow2(n - 1)

Min(a, b) == IF a <= b THEN a ELSE b

\* Values of Math.random(), in thousandths: 0 <= r < 1.
RandomSamples == {0, 999}

\* Math.floor(Math.random() * baseDelay)
Jitter(r, base) == (r * base) \div 1000

\* baseDelay * Math.pow(2, attempt - 1)
Backoff(base, attempt) == base * Pow2(attempt - 1)

\* Variant: the delay is not capped.
Delay_NoCap(base, attempt, jitter) == Backoff(base, attempt) + jitter

\* Math.min(backoff + jitter, 10_000)
Delay(base, attempt, jitter) == Min(Backoff(base, attempt) + jitter, MaxDelayMs)

\* Variant: the last attempt is taken one attempt too early.
IsLast_OffByOne(attempt) == attempt >= maxRetries

\* const isLast = attempt > maxRetries
IsLast(attempt) == attempt > maxRetries

\* The withRetry call that is not running.
IdleRetry ==
    [label |-> "none", st |-> "idle", attempt |-> 0, given |-> << >>,
     delays |-> << >>, jitters |-> << >>, thrown |-> << >>, err |-> NoError]

\* withRetry(fn, {label, ...}) entered: let attempt = 0
NewRetry(label, given) ==
    [IdleRetry EXCEPT !.label = label, !.st = "ready", !.given = given]

\* What one call of the backend can do, given the backend of this run.
CanSucceed == backend.kind \in {"succeeds", "flaky"}
CanThrow == IF backend.kind = "succeeds" THEN {} ELSE backend.errs

\* attempt += 1; ... await fn()  (first pass, or the pass after a sleep)
WithRetryInvoke ==
    /\ rs.st \in {"ready", "sleeping"}
    /\ rs' = [rs EXCEPT !.attempt = rs.attempt + 1, !.st = "awaiting"]
    /\ invocations' = Append(invocations, [label |-> rs.label, given |-> rs.given])
    /\ UNCHANGED <<outside, fetchFailed, variant, opts, form, backend, pc, events, heartbeat, closed,
                   tempDir, batchStart, frames, dbWrites, perFrame, analysis>>

\* return await fn()
WithRetryReturn ==
    /\ rs.st = "awaiting"
    /\ CanSucceed
    /\ rs' = [rs EXCEPT !.st = "returned"]
    /\ UNCHANGED <<outside, fetchFailed, variant, opts, form, backend, pc, events, heartbeat, closed,
                   tempDir, batchStart, frames, invocations, dbWrites, perFrame, analysis>>

\* Variant: the error thrown in the end is the first one caught.
WithRetryCatch_ThrowsFirst ==
    /\ rs.st = "awaiting"
    /\ \E err \in CanThrow :
         LET r == isRetryableError(err)
             seen == Append(rs.thrown, err)
         IN  IF ~r.retryable \/ IsLast(rs.attempt)
             THEN rs' = [rs EXCEPT !.st = "thrown", !.err = seen[1], !.thrown = seen]
             ELSE \E rnd \in RandomSamples :
                    LET jitter == Jitter(rnd, baseDelay)
                        delay == Delay(baseDelay, rs.attempt, jitter)
                    IN  rs' = [rs EXCEPT !.st = "sleeping", !.err = err,
                                         !.thrown = seen,
                                         !.jitters = Append(rs.jitters, jitter),
                                         !.delays = Append(rs.delays, delay)]
    /\ UNCHANGED <<outside, fetchFailed, variant, opts, form, backend, pc, events, heartbeat, closed,
                   tempDir, batchStart, frames, invocations, dbWrites, perFrame, analysis>>

\* catch (err) { ... throw err | await sleep(delay) }
WithRetryCatch ==
    /\ rs.st = "awaiting"
    /\ \E err \in CanThrow :
         LET r == isRetryableError(err)
             seen == Append(rs.thrown, err)
         IN  IF ~r.retryable \/ IsLast(rs.attempt)
             THEN rs' = [rs EXCEPT !.st = "thrown", !.err = err, !.thrown = seen]
             ELSE \E rnd \in RandomSamples :
                    LET jitter == Jitter(rnd, baseDelay)
                        delay == Delay(baseDelay, rs.attempt, jitter)
                    IN  rs' = [rs EXCEPT !.st = "sleeping", !.err = err,
                                         !.thrown = seen,
                                         !.jitters = Append(rs.jitters, jitter),
                                         !.delays = Append(rs.delays, delay)]
    /\ UNCHANGED <<outside, fetchFailed, variant, opts, form, backend, pc, events, heartbeat, closed,
                   tempDir, batchStart, frames, invocations, dbWrites, perFrame, analysis>>

----------------------------------------------------------------------------
(* The submission: the multipart form read by the POST handler *)

\* The frameCount form field: absent, or a string that is or is not a number.
AbsentField == [present |-> FALSE, numeric |-> FALSE, v |-> 0]
TextField == [present |-> TRUE, numeric |-> FALSE, v |-> 0]
IntField(n) == [present |-> TRUE, numeric |-> TRUE, v |-> n]

\* Variant: an absent field is parsed as it is, without the '0' default.
ParseInt_NoDefault(field) ==
    IF ~field.present \/ ~field.numeric THEN [nan |-> TRUE, v |-> 0]
    ELSE [nan |-> FALSE, v |-> field.v]

\* parseInt(formData.get('frameCount') as string || '0')
ParseInt(field) ==
    IF ~field.present THEN [nan |-> FALSE, v |-> 0]
    ELSE IF ~field.numeric THEN [nan |-> TRUE, v |-> 0]
    ELSE [nan |-> FALSE, v |-> field.v]

\* What the form carries for frame index i:
\*   "url"  frameUrl_<i> and framePath_<i>     "data"  frame_<i>
\*   "both" the two of them                    "none"  nothing
FrameKinds == {"url", "data", "both", "none"}

\* The DICOM metadata fields of the form.  A field is a string, "" when the
\* form does not carry it.  metadata_0 is absent, or a string that
\* JSON.parse turns into an object (a key it lacks reads as "") or rejects.
MetadataFields == {"patientName", "patientID", "studyDate", "modality"}
Blank == [f \in MetadataFields |-> ""]
NoFrameMetadata == [present |-> FALSE, parses |-> FALSE, fields |-> Blank]
Unparsed == [present |-> TRUE, parses |-> FALSE, fields |-> Blank]
FrameMetadata(fields) == [present |-> TRUE, parses |-> TRUE, fields |-> fields]
NoMeta == [top |-> Blank, metadata_0 |-> NoFrameMetadata]

LargeFrameCounts == {BATCH_SIZE, BATCH_SIZE + 1, 2 * BATCH_SIZE + 1}

SmallForms ==
    UNION {{[frameCount |-> IntField(n), kinds |-> k, meta |-> NoMeta] :
                k \in [0..(n - 1) -> FrameKinds]} : n \in 1..MaxSmallFrames}

LargeForms ==
    {[frameCount |-> IntField(n), kinds |-> [i \in 0..(n - 1) |-> k], meta |-> NoMeta] :
        n \in LargeFrameCounts, k \in {"url", "data"}}

EmptyForms ==
    {[frameCount |-> f, kinds |-> [i \in {} |-> "none"], meta |-> NoMeta] :
        f \in {AbsentField, TextField, IntField(0), IntField(-1)}}

Forms == SmallForms \cup LargeForms \cup EmptyForms

\* const frameCount = parseInt(...)
frameCount == ParseInt(form.frameCount)

\* x || ''   for strings
OrBlank(x) == IF x # "" THEN x ELSE ""

\* const dicomMetadata = { patientName: formData.get('patientName') || '', ... };
\* if (!dicomMetadata.patientName && frameCount > 0) { metadata_0, if present
\* and parsed, replaces the four fields }
ExtractMetadata(meta, count) ==
    LET top == [f \in MetadataFields |-> OrBlank(meta.top[f])]
    IN  IF /\ top.patientName = ""
           /\ ~count.nan /\ count.v > 0
           /\ meta.metadata_0.present
           /\ meta.metadata_0.parses
        THEN [f \in MetadataFields |-> OrBlank(meta.metadata_0.fields[f])]
        ELSE top

\* the dicomMetadata handed to analyzeAllFramesWithGPT
dicomMetadata == ExtractMetadata(form.meta, frameCount)

\* batchStart < frameCount  (false when frameCount is NaN)
InLoop(bs) == ~frameCount.nan /\ bs < frameCount.v

\* const batchEnd = Math.min(batchStart + BATCH_SIZE, frameCount)
BatchEnd(bs) == Min(bs + BATCH_SIZE, frameCount.v)

\* for (let i = batchStart; i < batchEnd; i++): the indices visited, in order
LoopIndices(lo, hi) == [k \in 1..(hi - lo) |-> lo + k - 1]

\* if (frameUrl && framePath)
IsRemote(i) == form.kinds[i] \in {"url", "both"}

\* else { const dataUrl = formData.get(`frame_${i}`); if (dataUrl) ... }
IsInline(i) == form.kinds[i] = "data"

\* batchPromises of the batch that starts at bs
BatchPromises(bs) == SelectSeq(LoopIndices(bs, BatchEnd(bs)), IsRemote)

\* the frames pushed inside the for-i loop of the batch that starts at bs
BatchInline(bs) == SelectSeq(LoopIndices(bs, BatchEnd(bs)), IsInline)

\* frames after the batch: inline pushes, then frames.push(...batchResults)
FramesAfterBatch(fr, bs) == fr \o BatchInline(bs) \o BatchPromises(bs)

----------------------------------------------------------------------------
(* Events on the stream *)

\* data: {progress, step}; progress is the fraction num/den
ProgressEv(num, den, step, n) ==
    [kind |-> "progress", num |-> num, den |-> den, step |-> step, n |-> n]

\* data: {progress: 100, results}
ResultsEv ==
    [kind |-> "results", num |-> 100, den |-> 1, step |-> "", n |-> 0]

\* data: {error: errorMessage}
ErrorEv(msg) ==
    [kind |-> "error", num |-> 0, den |-> 1, step |-> msg, n |-> 0]

\* const batchProgress = 15 + ((batchStart / frameCount) * 25)
BatchProgressEv(bs) ==
    ProgressEv(15 * frameCount.v + 25 * bs, frameCount.v,
               "loading_batch", (bs \div BATCH_SIZE) + 1)

----------------------------------------------------------------------------
(* The Analysis Backend's response text and its parsing *)

\* A JSON value as JavaScript holds it after JSON.parse.  Numbers are kept in
\* hundredths (60 is 0.6), strings are character sequences.
JsUndefined == [t |-> "undefined", n |-> 0, s |-> << >>]
JsNull == [t |-> "null", n |-> 0, s |-> << >>]
JsNumber(n) == [t |-> "number", n |-> n, s |-> << >>]
JsString(s) == [t |-> "string", n |-> 0, s |-> s]
JsBoolean(b) == [t |-> "boolean", n |-> IF b THEN 1 ELSE 0, s |-> << >>]
JsArray(items) == [t |-> "array", n |-> 0, s |-> << >>, items |-> items]

\* one entry of frameAnalyses: {"confidence": c}
FrameEntry(c) == [t |-> "object", n |-> 0, s |-> << >>, confidence |-> c]

\* the response object: {"urgency": u, "frameAnalyses": fas}; a key whose
\* value is JsUndefined is not in the object
Overall(u, fas) ==
    [t |-> "object", n |-> 0, s |-> << >>, urgency |-> u, frameAnalyses |-> fas]

\* value.key: undefined on a number, a string, a boolean, an array, and on
\* an object without the key
Prop(v, key) ==
    IF v.t = "object" /\ key \in DOMAIN v THEN v[key] ELSE JsUndefined

\* ToBoolean, as `if (x)` and `x || y` apply it
Truthy(v) ==
    CASE v.t \in {"undefined", "null"} -> FALSE
      [] v.t = "number" -> v.n # 0
      [] v.t = "string" -> v.s # << >>
      [] v.t = "boolean" -> v.n = 1
      [] OTHER -> TRUE

\* Number(x); nan where the result is NaN
ToNumber(v) ==
    CASE v.t = "number" -> [nan |-> FALSE, n |-> v.n]
      [] v.t = "null" -> [nan |-> FALSE, n |-> 0]
      [] v.t = "boolean" -> [nan |-> FALSE, n |-> 100 * v.n]
      [] v.t = "string" ->
            IF v.s = << >> THEN [nan |-> FALSE, n |-> 0]
            ELSE IF \A i \in DOMAIN v.s : v.s[i] \in DigitChars
            THEN [nan |-> FALSE, n |-> 100 * TextToNumber(v.s)]
            ELSE [nan |-> TRUE, n |-> 0]
      [] OTHER -> [nan |-> TRUE, n |-> 0]

Max(a, b) == IF a >= b THEN a ELSE b

\* Variant: the confidence is taken as the response gives it.
Confidence_Unclamped(fa) ==
    LET x == ToNumber(Prop(fa, "confidence"))
    IN  IF x.nan \/ x.n = 0 THEN 60 ELSE x.n

\* Math.max(0, Math.min(1, Number(fa.confidence) || 0.6))
Confidence(fa) ==
    LET x == ToNumber(Prop(fa, "confidence"))
    IN  Max(0, Min(100, IF x.nan \/ x.n = 0 THEN 60 ELSE x.n))

High == <<"h", "i", "g", "h">>
Medium == <<"m", "e", "d", "i", "u", "m">>
Low == <<"l", "o", "w">>
Urgent == <<"u", "r", "g", "e", "n", "t">>
Immediate == <<"i", "m", "m", "e", "d", "i", "a", "t", "e">>
Moderate == <<"m", "o", "d", "e", "r", "a", "t", "e">>

\* (parsed.urgency === 'high' || ... 'medium' || ... 'low') ? parsed.urgency : 'low'
Urgency(parsed) ==
    LET u == Prop(parsed, "urgency")
    IN  IF u.t = "string" /\ u.s \in {High, Medium, Low} THEN u.s ELSE Low

\* (parsed.frameAnalyses || [])
FrameAnalysesOf(parsed) ==
    LET fas == Prop(parsed, "frameAnalyses")
    IN  IF Truthy(fas) THEN fas ELSE JsArray(<< >>)

\* .map((fa) => ({... fa.frameNumber ...})) throws a TypeError: map is not a
\* function of a value that is no array, and null has no properties.
MapThrows(fas) ==
    \/ fas.t # "array"
    \/ \E i \in DOMAIN fas.items : fas.items[i].t = "null"

\* if (parsed) { per = ...; overall = ...; return { overall, perFrame: per } }
Structured(parsed) ==
    LET fas == FrameAnalysesOf(parsed)
    IN  IF MapThrows(fas)
        THEN [threw |-> TRUE, urgency |-> << >>, confidences |-> << >>]
        ELSE [threw |-> FALSE, urgency |-> Urgency(parsed),
              confidences |-> [i \in DOMAIN fas.items |-> Confidence(fas.items[i])]]

\* The text of a response: prose, a JSON value, prose; json is NoJson where
\* the text holds no JSON value.  The prose is no JSON by itself.
NoJson == [t |-> "none", n |-> 0, s |-> << >>]
Text(before, json, after) == [before |-> before, json |-> json, after |-> after]

\* The characters of a JSON value.  An object is written with its braces and
\* the characters of its urgency string; an array with its brackets.
Characters(v) ==
    CASE v.t = "none" -> << >>
      [] v.t = "null" -> <<"n", "u", "l", "l">>
      [] v.t = "number" -> IF v.n < 0 THEN <<"-">> \o NumberToText(-v.n)
                           ELSE NumberToText(v.n)
      [] v.t = "string" -> <<"\"">> \o v.s \o <<"\"">>
      [] v.t = "boolean" -> IF v.n = 1 THEN <<"t", "r", "u", "e">>
                            ELSE <<"f", "a", "l", "s", "e">>
      [] v.t = "array" -> <<"[", "]">>
      [] OTHER -> <<"{">> \o Prop(v, "urgency").s \o <<"}">>

CharactersOf(text) == text.before \o Characters(text.json) \o text.after

\* text.indexOf(c) and text.lastIndexOf(c), 1-based; 0 for the code's -1
IndexOf(s, c) ==
    LET at == {i \in DOMAIN s : s[i] = c}
    IN  IF at = {} THEN 0 ELSE CHOOSE i \in at : \A j \in at : i <= j

LastIndexOf(s, c) ==
    LET at == {i \in DOMAIN s : s[i] = c}
    IN  IF at = {} THEN 0 ELSE CHOOSE i \in at : \A j \in at : i >= j

\* parseOverallJson: JSON.parse(text), else JSON.parse of the slice from the
\* first '{' to the last '}', else null
parseOverallJson(text) ==
    LET chars == CharactersOf(text)
        start == IndexOf(chars, "{")
        end == LastIndexOf(chars, "}")
    IN  IF text.json.t # "none" /\ Trim(text.before) = << >> /\ Trim(text.after) = << >>
        THEN text.json
        ELSE IF /\ start # 0 /\ end # 0 /\ end > start
                /\ text.json.t = "object"
                /\ SubSeq(chars, start, end) = Characters(text.json)
        THEN text.json
        ELSE JsNull

\* extractUrgency
extractUrgency(text) ==
    LET lower == ToLowerCase(CharactersOf(text))
    IN  IF Includes(lower, High) \/ Includes(lower, Urgent) \/ Includes(lower, Immediate)
        THEN High
        ELSE IF Includes(lower, Medium) \/ Includes(lower, Moderate)
        THEN Medium
        ELSE Low

\* The part of analyzeAllFramesWithGPT / analyzeAllFramesWithGemini after the
\* all-frames call: what it returns for the text, or that it threw.
AnalysisOf(text) ==
    LET parsed == parseOverallJson(text)
    IN  IF Truthy(parsed) THEN Structured(parsed)
        ELSE [threw |-> FALSE, urgency |-> extractUrgency(text), confidences |-> << >>]

\* No analysis was returned yet.
NoAnalysis == [threw |-> FALSE, urgency |-> << >>, confidences |-> << >>]

----------------------------------------------------------------------------
(* The POST handler of the analyze-frames route *)

\* controller.enqueue(...) on a cancelled stream throws.  In the try body
\* the exception reaches the catch block, whose first statement is an
\* enqueue again: it throws out of the catch block, before clearInterval and
\* controller.close(), and start() rejects.
Aborted ==
    /\ pc' = "aborted"
    /\ UNCHANGED <<events, heartbeat, closed>>

\* catch (error) { enqueue({error}); if (heartbeat) clearInterval(heartbeat);
\*                 controller.close(); }
CatchBlock(evs, msg) ==
    IF cancelled THEN Aborted
    ELSE /\ events' = Append(evs, ErrorEv(msg))
         /\ heartbeat' = IF heartbeat = "running" THEN "cleared" ELSE heartbeat
         /\ closed' = TRUE
         /\ pc' = "done"

\* controller.enqueue of progress events in the try body, then go on at `to`
Enqueue(evs, to) ==
    IF cancelled THEN Aborted
    ELSE /\ events' = events \o evs
         /\ pc' = to
         /\ UNCHANGED <<heartbeat, closed>>

\* heartbeat = setInterval(...); enqueue({progress: 5, step: 'received_request'})
POST_Start ==
    /\ pc = "start"
    /\ heartbeat' = "running"
    /\ events' = Append(events, ProgressEv(5, 1, "received_request", 0))
    /\ pc' = "formData"
    /\ UNCHANGED <<outside, fetchFailed, variant, opts, form, backend, closed, tempDir, batchStart,
                   frames, rs, invocations, dbWrites, perFrame, analysis>>

\* await request.formData(); frameCount check; enqueue({progress: 10, ...})
POST_ParseForm ==
    /\ pc = "formData"
    /\ \E bodyOk \in BOOLEAN :
         IF ~bodyOk THEN CatchBlock(events, "formData_failed")
         ELSE IF ~frameCount.nan /\ frameCount.v = 0
         THEN CatchBlock(events, "No frames provided")
         ELSE Enqueue(<<ProgressEv(10, 1, "parsing_form_data", 0)>>, "mkdir")
    /\ UNCHANGED <<outside, fetchFailed, variant, opts, form, backend, tempDir, batchStart, frames,
                   rs, invocations, dbWrites, perFrame, analysis>>

\* await fs.mkdir(framesDir); enqueue({progress: 15, ...})
POST_Mkdir ==
    /\ pc = "mkdir"
    /\ \E ok \in BOOLEAN :
         IF ~ok THEN CatchBlock(events, "mkdir_failed") /\ UNCHANGED tempDir
         ELSE /\ tempDir' = "staged"
              /\ Enqueue(<<ProgressEv(15, 1, "loading_frames_from_storage", 0)>>,
                         "batch")
    /\ UNCHANGED <<outside, fetchFailed, variant, opts, form, backend, batchStart, frames, rs,
                   invocations, dbWrites, perFrame, analysis>>

\* Variant: a failed fetch drops its frame and the resolution goes on.
POST_Batch_SkipFailed ==
    /\ pc = "batch"
    /\ InLoop(batchStart)
    /\ IF cancelled
       THEN Aborted /\ UNCHANGED <<frames, batchStart, fetchFailed>>
       ELSE \/ \* every write and every fetch of the batch succeeds
               /\ events' = Append(events, BatchProgressEv(batchStart))
               /\ frames' = FramesAfterBatch(frames, batchStart)
               /\ batchStart' = batchStart + BATCH_SIZE
               /\ UNCHANGED <<pc, heartbeat, closed, fetchFailed>>
            \/ \* a frame whose fetch failed is left out, the others are kept
               /\ BatchPromises(batchStart) # << >>
               /\ fetchFailed' = TRUE
               /\ events' = Append(events, BatchProgressEv(batchStart))
               /\ frames' = frames \o BatchInline(batchStart)
                                   \o Tail(BatchPromises(batchStart))
               /\ batchStart' = batchStart + BATCH_SIZE
               /\ UNCHANGED <<pc, heartbeat, closed>>
            \/ \* await fs.writeFile(localFramePath, buffer) of an inline frame throws
               /\ BatchInline(batchStart) # << >>
               /\ CatchBlock(Append(events, BatchProgressEv(batchStart)),
                             "writeFile_failed")
               /\ UNCHANGED <<frames, batchStart, fetchFailed>>
    /\ UNCHANGED <<outside, variant, opts, form, backend, tempDir, rs, invocations,
                   dbWrites, perFrame, analysis>>

\* One pass of the batch loop: enqueue the batch progress, resolve the batch.
POST_Batch ==
    /\ pc = "batch"
    /\ InLoop(batchStart)
    /\ IF cancelled
       THEN Aborted /\ UNCHANGED <<frames, batchStart, fetchFailed>>
       ELSE \/ \* every write and every fetch of the batch succeeds
               /\ events' = Append(events, BatchProgressEv(batchStart))
               /\ frames' = FramesAfterBatch(frames, batchStart)
               /\ batchStart' = batchStart + BATCH_SIZE
               /\ UNCHANGED <<pc, heartbeat, closed, fetchFailed>>
            \/ \* if (!response.ok) throw ...  -> Promise.all rejects
               /\ BatchPromises(batchStart) # << >>
               /\ fetchFailed' = TRUE
               /\ CatchBlock(Append(events, BatchProgressEv(batchStart)),
                             "Failed to load frame from storage")
               /\ UNCHANGED <<frames, batchStart>>
            \/ \* await fs.writeFile(localFramePath, buffer) of an inline frame throws
               /\ BatchInline(batchStart) # << >>
               /\ CatchBlock(Append(events, BatchProgressEv(batchStart)),
                             "writeFile_failed")
               /\ UNCHANGED <<frames, batchStart, fetchFailed>>
    /\ UNCHANGED <<outside, variant, opts, form, backend, tempDir, rs, invocations,
                   dbWrites, perFrame, analysis>>

\* frames.slice(0, Math.min(5, frames.length))
FrameSample(fr) == SubSeq(fr, 1, Min(MetadataSampleSize, Len(fr)))

\* The first withRetry call of the analyze function of this route.
FirstCall(fr) ==
    IF variant = "gemini"
    THEN NewRetry("metadata-extraction", FrameSample(fr))
    ELSE NewRetry("all-frames", fr)

\* Variant: preparing_model is enqueued before frames_saved.
POST_FramesSaved_ModelFirst ==
    /\ pc = "batch"
    /\ ~InLoop(batchStart)
    /\ Enqueue(<<ProgressEv(30, 1, "preparing_model", 0),
                  ProgressEv(20, 1, "frames_saved", 0)>>, "analyze")
    /\ rs' = IF cancelled THEN rs ELSE FirstCall(frames)
    /\ UNCHANGED <<outside, fetchFailed, variant, opts, form, backend, tempDir,
                   batchStart, frames, invocations, dbWrites, perFrame, analysis>>

\* After the loop: enqueue frames_saved and preparing_model, enter the
\* analyze function up to its first backend call.
POST_FramesSaved ==
    /\ pc = "batch"
    /\ ~InLoop(batchStart)
    /\ Enqueue(<<ProgressEv(20, 1, "frames_saved", 0),
                  ProgressEv(30, 1, "preparing_model", 0)>>, "analyze")
    /\ rs' = IF cancelled THEN rs ELSE FirstCall(frames)
    /\ UNCHANGED <<outside, fetchFailed, variant, opts, form, backend, tempDir,
                   batchStart, frames, invocations, dbWrites, perFrame, analysis>>

\* Gemini route: the metadata call has settled (its error is caught and
\* logged); the all-frames call follows.
Analyze_MetadataSettled ==
    /\ pc = "analyze"
    /\ rs.label = "metadata-extraction"
    /\ rs.st \in {"returned", "thrown"}
    /\ rs' = NewRetry("all-frames", frames)
    /\ UNCHANGED <<outside, fetchFailed, variant, opts, form, backend, pc, events, heartbeat, closed,
                   tempDir, batchStart, frames, invocations, dbWrites, perFrame, analysis>>

\* Variant: the results event is enqueued as soon as the response is parsed.
POST_AnalysisReturned_ResultsFirst ==
    /\ pc = "analyze"
    /\ rs.label = "all-frames"
    /\ rs.st = "returned"
    /\ \E text \in backend.texts :
         LET result == AnalysisOf(text)
         IN  IF result.threw
             THEN /\ CatchBlock(events, "TypeError")
                  /\ UNCHANGED <<perFrame, analysis>>
             ELSE /\ perFrame' = IF cancelled THEN perFrame
                                  ELSE Len(result.confidences)
                  /\ analysis' = IF cancelled THEN analysis ELSE result
                  /\ Enqueue(<<ProgressEv(90, 1, "parsing_results", 0),
                               ProgressEv(95, 1, "finalizing", 0),
                               ResultsEv,
                               ProgressEv(96, 1, "saving_to_database", 0)>>,
                             "saveSession")
    /\ UNCHANGED <<outside, fetchFailed, variant, opts, form, backend, tempDir,
                   batchStart, frames, rs, invocations, dbWrites>>

\* The all-frames call returned: the response text is parsed and normalised
\* inside the analyze function (a TypeError there reaches the catch block
\* of POST), then enqueue parsing_results, finalizing, saving_to_database.
POST_AnalysisReturned ==
    /\ pc = "analyze"
    /\ rs.label = "all-frames"
    /\ rs.st = "returned"
    /\ \E text \in backend.texts :
         LET result == AnalysisOf(text)
         IN  IF result.threw
             THEN /\ CatchBlock(events, "TypeError")
                  /\ UNCHANGED <<perFrame, analysis>>
             ELSE /\ perFrame' = IF cancelled THEN perFrame
                                  ELSE Len(result.confidences)
                  /\ analysis' = IF cancelled THEN analysis ELSE result
                  /\ Enqueue(<<ProgressEv(90, 1, "parsing_results", 0),
                               ProgressEv(95, 1, "finalizing", 0),
                               ProgressEv(96, 1, "saving_to_database", 0)>>,
                             "saveSession")
    /\ UNCHANGED <<outside, fetchFailed, variant, opts, form, backend, tempDir,
                   batchStart, frames, rs, invocations, dbWrites>>

\* Variant: a failed backend call falls back to an empty analysis.
POST_AnalysisThrown_Fallback ==
    /\ pc = "analyze"
    /\ rs.label = "all-frames"
    /\ rs.st = "thrown"
    /\ perFrame' = IF cancelled THEN perFrame ELSE 0
    /\ analysis' = IF cancelled THEN analysis
                   ELSE [threw |-> FALSE, urgency |-> Low, confidences |-> << >>]
    /\ Enqueue(<<ProgressEv(90, 1, "parsing_results", 0),
                 ProgressEv(95, 1, "finalizing", 0),
                 ProgressEv(96, 1, "saving_to_database", 0)>>,
               "saveSession")
    /\ UNCHANGED <<outside, fetchFailed, variant, opts, form, backend, tempDir,
                   batchStart, frames, rs, invocations, dbWrites>>

\* The all-frames call threw: the error reaches the catch block of POST.
POST_AnalysisThrown ==
    /\ pc = "analyze"
    /\ rs.label = "all-frames"
    /\ rs.st = "thrown"
    /\ CatchBlock(events, "backend_error")
    /\ UNCHANGED <<outside, fetchFailed, variant, opts, form, backend, tempDir, batchStart, frames,
                   rs, invocations, dbWrites, perFrame, analysis>>

\* Number of analysis_frames inserts sent so far (the for-of position).
FrameWrites == Len(SelectSeq(dbWrites, LAMBDA w : w.table = "analysis_frames"))

\* enqueue({progress: 98, step: 'cleanup'}) and go on to cleanup(framesDir)
ToCleanup ==
    IF cancelled THEN pc' = "aborted" /\ UNCHANGED events
    ELSE /\ events' = Append(events, ProgressEv(98, 1, "cleanup", 0))
         /\ pc' = "cleanup"

\* await saveAnalysisSession(...): insert, throw if the store reports an error
POST_SaveSession ==
    /\ pc = "saveSession"
    /\ \E ok \in BOOLEAN :
         /\ dbWrites' = Append(dbWrites, [table |-> "analysis_sessions", ok |-> ok])
         /\ IF ok /\ perFrame > 0
            THEN pc' = "saveFrame" /\ UNCHANGED events
            ELSE ToCleanup
    /\ UNCHANGED <<outside, fetchFailed, variant, opts, form, backend, heartbeat, closed, tempDir,
                   batchStart, frames, rs, invocations, perFrame, analysis>>

\* Variant: a failed frame insert is logged and the loop goes on.
POST_SaveFrame_Continues ==
    /\ pc = "saveFrame"
    /\ \E ok \in BOOLEAN :
         /\ dbWrites' = Append(dbWrites, [table |-> "analysis_frames", ok |-> ok])
         /\ IF FrameWrites + 1 < perFrame
            THEN UNCHANGED <<pc, events>>
            ELSE ToCleanup
    /\ UNCHANGED <<outside, fetchFailed, variant, opts, form, backend, heartbeat, closed, tempDir,
                   batchStart, frames, rs, invocations, perFrame, analysis>>

\* Variant: a failed frame insert is not caught around the persistence block.
POST_SaveFrame_Propagates ==
    /\ pc = "saveFrame"
    /\ \E ok \in BOOLEAN :
         /\ dbWrites' = Append(dbWrites, [table |-> "analysis_frames", ok |-> ok])
         /\ IF ~ok THEN CatchBlock(events, "Failed to save analysis frame")
            ELSE /\ UNCHANGED <<heartbeat, closed>>
                 /\ IF FrameWrites + 1 < perFrame
                    THEN UNCHANGED <<pc, events>>
                    ELSE ToCleanup
    /\ UNCHANGED <<outside, fetchFailed, variant, opts, form, backend, tempDir,
                   batchStart, frames, rs, invocations, perFrame, analysis>>

\* await saveAnalysisFrame(...) for the next frame analysis
POST_SaveFrame ==
    /\ pc = "saveFrame"
    /\ \E ok \in BOOLEAN :
         /\ dbWrites' = Append(dbWrites, [table |-> "analysis_frames", ok |-> ok])
         /\ IF ok /\ FrameWrites + 1 < perFrame
            THEN UNCHANGED <<pc, events>>
            ELSE ToCleanup
    /\ UNCHANGED <<outside, fetchFailed, variant, opts, form, backend, heartbeat, closed, tempDir,
                   batchStart, frames, rs, invocations, perFrame, analysis>>

\* Variant: the success path closes the stream without clearInterval.
POST_Cleanup_NoClear ==
    /\ pc = "cleanup"
    /\ \E ok \in BOOLEAN : tempDir' = IF ok THEN "deleted" ELSE "undeleted"
    /\ IF cancelled THEN Aborted
       ELSE /\ events' = Append(events, ResultsEv)
            /\ UNCHANGED heartbeat
            /\ closed' = TRUE
            /\ pc' = "done"
    /\ UNCHANGED <<outside, fetchFailed, variant, opts, form, backend, batchStart, frames, rs,
                   invocations, dbWrites, perFrame, analysis>>

\* await cleanup(framesDir): the directory is "deleted", or "undeleted" when
\* readdir, unlink or rmdir threw (its errors are caught and logged);
\* enqueue({progress: 100, results}); clearInterval(heartbeat); close()
POST_Cleanup ==
    /\ pc = "cleanup"
    /\ \E ok \in BOOLEAN : tempDir' = IF ok THEN "deleted" ELSE "undeleted"
    /\ IF cancelled THEN Aborted
       ELSE /\ events' = Append(events, ResultsEv)
            /\ heartbeat' = "cleared"
            /\ closed' = TRUE
            /\ pc' = "done"
    /\ UNCHANGED <<outside, fetchFailed, variant, opts, form, backend, batchStart, frames, rs,
                   invocations, dbWrites, perFrame, analysis>>

\* The setInterval callback: try { controller.enqueue(': keep-alive\n\n') }
\* catch {}.  The enqueue throws, and is swallowed, once the stream is closed
\* or cancelled.  `late` records that a terminal event was already enqueued.
HeartbeatTick ==
    /\ heartbeat = "running"
    /\ Len(keepAlives) < MaxTicks
    /\ keepAlives' = Append(keepAlives,
          [sent |-> ~cancelled /\ ~closed,
           late |-> \E i \in DOMAIN events : events[i].kind \in {"results", "error"}])
    /\ UNCHANGED <<variant, opts, form, backend, pc, events, heartbeat, closed,
                   tempDir, batchStart, frames, rs, invocations, dbWrites,
                   perFrame, analysis, fetchFailed, cancelled, client, browser, concurrent>>

\* The client closes the connection while the handler runs: the response
\* stream is cancelled.  The ReadableStream has no cancel() callback, so the
\* handler is not told; its later enqueues throw.
ClientDisconnect ==
    /\ pc \notin {"start", "done", "aborted"}
    /\ ~cancelled
    /\ cancelled' = TRUE
    /\ UNCHANGED <<variant, opts, form, backend, pc, events, heartbeat, closed,
                   tempDir, batchStart, frames, rs, invocations, dbWrites,
                   perFrame, analysis, fetchFailed, keepAlives, client, browser, concurrent>>

----------------------------------------------------------------------------
(* Two requests handled by one server process *)

\* The steps of POST that name and use what a request calls its own: the
\* session identifier, the frames directory, the staged file, the session
\* row, the cleanup.  Node runs each synchronous stretch of a handler to its
\* next await; the two handlers interleave at their awaits.
Requests == {1, 2}

\* formData.get('sessionId'): absent, or the identifier this client supplies
NoSessionId == [supplied |-> FALSE, n |-> 0]
Supplied(r) == [supplied |-> TRUE, n |-> r]

\* `analysis_${Date.now()}`
Generated(ms) == [supplied |-> FALSE, n |-> ms]

NewRequest(field) ==
    [pc |-> "formData", field |-> field, sessionId |-> NoSessionId, framesDir |-> 0]

\* No request is under way.
ConcurrentIdle ==
    /\ clock = 0
    /\ requests = [r \in Requests |-> [NewRequest(NoSessionId) EXCEPT !.pc = "none"]]
    /\ disk = [dirs |-> {}, files |-> {}, foreign |-> {}]
    /\ rows = << >>

\* Time passes between two synchronous stretches.
Clock_Tick ==
    /\ clock < MaxClockMs
    /\ clock' = clock + 1
    /\ UNCHANGED <<server, client, browser, requests, disk, rows>>

\* sessionId = formData.get('sessionId') || `analysis_${Date.now()}`;
\* framesDir = path.join(tempDir, `frames_${Date.now()}`), read at `later`
Request_Named(r, later) ==
    [requests[r] EXCEPT
        !.pc = "mkdir",
        !.sessionId = IF requests[r].field.supplied THEN requests[r].field
                      ELSE Generated(clock),
        !.framesDir = later]

\* await request.formData() resolved: the stretch up to await fs.mkdir.  The
\* clock may tick between the two Date.now() calls of the stretch.
Concurrent_ParseForm ==
    /\ \E r \in Requests :
         /\ requests[r].pc = "formData"
         /\ \E later \in {clock, clock + 1} :
              /\ later <= MaxClockMs
              /\ clock' = later
              /\ requests' = [requests EXCEPT ![r] = Request_Named(r, later)]
    /\ UNCHANGED <<server, client, browser, disk, rows>>

\* await fs.mkdir(framesDir, { recursive: true }): no error if it exists
Concurrent_Mkdir ==
    /\ \E r \in Requests :
         /\ requests[r].pc = "mkdir"
         /\ disk' = [disk EXCEPT !.dirs = @ \cup {requests[r].framesDir}]
         /\ requests' = [requests EXCEPT ![r].pc = "batch"]
    /\ UNCHANGED <<server, client, browser, clock, rows>>

\* await fs.writeFile(path.join(framesDir, 'frame_001.png'), buffer): the
\* first frame of the request; ENOENT if the directory is gone.  `foreign`
\* records a file of another request that was overwritten or deleted.
Concurrent_WriteFrame ==
    /\ \E r \in Requests :
         /\ requests[r].pc = "batch"
         /\ LET dir == requests[r].framesDir
                old == {f \in disk.files : f.dir = dir}
            IN  IF dir \notin disk.dirs
                THEN /\ requests' = [requests EXCEPT ![r].pc = "failed"]
                     /\ UNCHANGED disk
                ELSE /\ disk' = [disk EXCEPT
                           !.files = (@ \ old) \cup {[dir |-> dir, owner |-> r]},
                           !.foreign = @ \cup {[by |-> r, of |-> f.owner, op |-> "write"] :
                                                  f \in {g \in old : g.owner # r}}]
                     /\ requests' = [requests EXCEPT ![r].pc = "save"]
    /\ UNCHANGED <<server, client, browser, clock, rows>>

\* await saveAnalysisSession({ sessionId, ... })
Concurrent_SaveSession ==
    /\ \E r \in Requests :
         /\ requests[r].pc = "save"
         /\ rows' = Append(rows, [session_id |-> requests[r].sessionId, by |-> r])
         /\ requests' = [requests EXCEPT ![r].pc = "cleanup"]
    /\ UNCHANGED <<server, client, browser, clock, disk>>

\* await cleanup(framesDir): readdir, unlink every file, rmdir; an error
\* (the directory is gone) is caught and logged
Concurrent_Cleanup ==
    /\ \E r \in Requests :
         /\ requests[r].pc = "cleanup"
         /\ LET dir == requests[r].framesDir
                old == {f \in disk.files : f.dir = dir}
            IN  IF dir \notin disk.dirs THEN UNCHANGED disk
                ELSE disk' = [dirs |-> disk.dirs \ {dir},
                              files |-> disk.files \ old,
                              foreign |-> disk.foreign \cup
                                  {[by |-> r, of |-> f.owner, op |-> "unlink"] :
                                      f \in {g \in old : g.owner # r}}]
         /\ requests' = [requests EXCEPT ![r].pc = "done"]
    /\ UNCHANGED <<server, client, browser, clock, rows>>

----------------------------------------------------------------------------
(* The client stream consumer: the reader loop of handleProceed/handleFile *)

\* Text is a sequence of characters.  A JSON payload is written with one
\* character per token: "{" "}" "," the digits, "p" for the key "progress":,
\* "s" for the key "step": (followed by the step's name), "r" for
\* "results":{...} and "e" for "error":"...".
DataPrefix == <<"d", "a", "t", "a", ":", " ">>
KeepAliveText == <<":", " ", "k", "a">>
StepNames == {"A", "B"}
Undefined == -1
\* JSON.stringify({progress?, step?, results?, error?}) on the server
JsonStringify(ev) ==
    LET fields ==
            (IF ev.progress # Undefined THEN <<<<"p">> \o NumberToText(ev.progress)>> ELSE << >>)
         \o (IF ev.step # "" THEN <<<<"s", ev.step>>>> ELSE << >>)
         \o (IF ev.results THEN <<<<"r">>>> ELSE << >>)
         \o (IF ev.error THEN <<<<"e">>>> ELSE << >>)
        Join[k \in 0..Len(fields)] ==
            IF k = 0 THEN << >>
            ELSE IF k = 1 THEN fields[1]
            ELSE Join[k - 1] \o <<",">> \o fields[k]
    IN  <<"{">> \o Join[Len(fields)] \o <<"}">>

\* String.prototype.startsWith
StartsWith(s, prefix) ==
    Len(s) >= Len(prefix) /\ SubSeq(s, 1, Len(prefix)) = prefix

\* String.prototype.slice(k) with a 0-based k
Slice(s, k) == SubSeq(s, k + 1, Len(s))

\* buffer.indexOf('\n'), 1-based; 0 when there is none (the code's -1)
IndexOfLF(s) ==
    LET at == {i \in DOMAIN s : s[i] = LF}
    IN  IF at = {} THEN 0 ELSE CHOOSE i \in at : \A j \in at : i <= j

\* line.replace(/\r$/, '')
StripCR(line) ==
    IF Len(line) > 0 /\ line[Len(line)] = CR
    THEN SubSeq(line, 1, Len(line) - 1) ELSE line

\* The object no payload parses to.
NoData ==
    [ok |-> FALSE, progress |-> Undefined, step |-> "", results |-> FALSE,
     error |-> FALSE]

\* The fields of an object body, split at the commas.
RECURSIVE SplitFields(_)
SplitFields(body) ==
    LET at == {i \in DOMAIN body : body[i] = ","}
    IN  IF at = {} THEN <<body>>
        ELSE LET c == CHOOSE i \in at : \A j \in at : i <= j
             IN  <<SubSeq(body, 1, c - 1)>> \o SplitFields(Slice(body, c))

ValidField(f) ==
    \/ Len(f) >= 2 /\ f[1] = "p" /\ \A i \in 2..Len(f) : f[i] \in DigitChars
    \/ Len(f) = 2 /\ f[1] = "s" /\ f[2] \in StepNames
    \/ f = <<"r">>
    \/ f = <<"e">>

\* Variant: a payload cut before its closing brace is still read.
JsonParse_Lenient(js) ==
    LET body == IF js[Len(js)] = "}" THEN SubSeq(js, 2, Len(js) - 1)
                ELSE Slice(js, 1)
        fields == IF body = << >> THEN << >> ELSE SplitFields(body)
        Has(c) == \E i \in DOMAIN fields : fields[i][1] = c
        Get(c) == fields[CHOOSE i \in DOMAIN fields :
                           fields[i][1] = c /\ \A j \in DOMAIN fields :
                               fields[j][1] = c => j <= i]
    IN  IF js[1] # "{" \/ \E i \in DOMAIN fields : ~ValidField(fields[i])
        THEN NoData
        ELSE [ok |-> TRUE,
              progress |-> IF Has("p") THEN TextToNumber(Slice(Get("p"), 1))
                           ELSE Undefined,
              step |-> IF Has("s") THEN Get("s")[2] ELSE "",
              results |-> Has("r"),
              error |-> Has("e")]

\* JSON.parse(jsonString), for a non-empty jsonString; ok is FALSE where
\* JSON.parse throws
JsonParse(js) ==
    LET body == SubSeq(js, 2, Len(js) - 1)
        fields == IF body = << >> THEN << >> ELSE SplitFields(body)
        Has(c) == \E i \in DOMAIN fields : fields[i][1] = c
        Get(c) == fields[CHOOSE i \in DOMAIN fields :
                           fields[i][1] = c /\ \A j \in DOMAIN fields :
                               fields[j][1] = c => j <= i]
    IN  IF \/ Len(js) < 2
           \/ js[1] # "{"
           \/ js[Len(js)] # "}"
           \/ \E i \in DOMAIN fields : ~ValidField(fields[i])
        THEN NoData
        ELSE [ok |-> TRUE,
              progress |-> IF Has("p") THEN TextToNumber(Slice(Get("p"), 1))
                           ELSE Undefined,
              step |-> IF Has("s") THEN Get("s")[2] ELSE "",
              results |-> Has("r"),
              error |-> Has("e")]

\* The consumer when the response arrives: uploadProgress is 50 and the last
\* step logged is 'Sending for AI analysis'.  uploadProgress is kept in
\* hundredths (5000 is 50), so that 50 + (progress / 100) * 50 is exact.
InitialConsumer ==
    [buffer |-> << >>, currentStep |-> "", uploadProgress |-> 5000,
     steps |-> <<"Sending for AI analysis">>, completions |-> << >>,
     alerts |-> << >>]

\* if (data.progress !== undefined) setUploadProgress(50 + (data.progress / 100) * 50)
ProgressUpdate(c, data) ==
    IF data.progress # Undefined
    THEN [c EXCEPT !.uploadProgress = 5000 + 50 * data.progress]
    ELSE c

\* Variant: a step is logged only if the log does not hold it yet.
StepUpdate_SetDedup(c, data) ==
    IF data.step # "" /\ data.step # c.currentStep
    THEN [c EXCEPT !.currentStep = data.step,
                   !.steps = IF \E i \in DOMAIN c.steps : c.steps[i] = data.step
                             THEN c.steps
                             ELSE Append(c.steps, data.step)]
    ELSE c

\* if (data.step && data.step !== currentStep) { currentStep = data.step;
\*   setSteps(prev => prev[prev.length - 1] === data.step ? prev : [...prev, data.step]) }
StepUpdate(c, data) ==
    IF data.step # "" /\ data.step # c.currentStep
    THEN [c EXCEPT !.currentStep = data.step,
                   !.steps = IF c.steps # << >> /\ c.steps[Len(c.steps)] = data.step
                             THEN c.steps
                             ELSE Append(c.steps, data.step)]
    ELSE c

\* if (data.results) { onAnalysisComplete(data.results); setUploadProgress(100);
\*                     setSteps(prev => [...prev, 'completed']) }
ResultsUpdate(c, data) ==
    IF data.results
    THEN [c EXCEPT !.completions = Append(c.completions, "results"),
                   !.uploadProgress = 10000,
                   !.steps = Append(c.steps, "completed")]
    ELSE c

\* Variant: an error event is shown but the completion callback is not called.
ErrorUpdate_NoCallback(c, data) ==
    IF data.error
    THEN [c EXCEPT !.alerts = Append(c.alerts, "Error: e"),
                   !.uploadProgress = 0,
                   !.steps = Append(c.steps, "error")]
    ELSE c

\* if (data.error) { alert(`Error: ${data.error}`); onAnalysisComplete(null);
\*                   setUploadProgress(0); setSteps(prev => [...prev, 'error']) }
ErrorUpdate(c, data) ==
    IF data.error
    THEN [c EXCEPT !.alerts = Append(c.alerts, "Error: e"),
                   !.completions = Append(c.completions, "null"),
                   !.uploadProgress = 0,
                   !.steps = Append(c.steps, "error")]
    ELSE c

\* The body of the per-line try block, after JSON.parse
HandleData(c, data) ==
    ErrorUpdate(ResultsUpdate(StepUpdate(ProgressUpdate(c, data), data), data), data)

\* One line taken off the buffer: only 'data: ' lines are looked at; an empty
\* payload is skipped; a JSON.parse exception is caught and logged.
HandleLine(c, raw) ==
    LET line == StripCR(raw)
    IN  IF ~StartsWith(line, DataPrefix) THEN c
        ELSE LET jsonString == Trim(Slice(line, 6))
             IN  IF jsonString = << >> THEN c
                 ELSE LET data == JsonParse(jsonString)
                      IN  IF data.ok THEN HandleData(c, data) ELSE c

\* while (newlineIndex !== -1) { line = buffer.slice(0, newlineIndex); ... }
RECURSIVE DrainLines(_)
DrainLines(c) ==
    LET newlineIndex == IndexOfLF(c.buffer)
    IN  IF newlineIndex = 0 THEN c
        ELSE DrainLines(HandleLine(
                 [c EXCEPT !.buffer = Slice(c.buffer, newlineIndex)],
                 SubSeq(c.buffer, 1, newlineIndex - 1)))

\* Variant: the buffer is replaced by the chunk, the remainder is not kept.
OnChunk_NoCarry(c, chunk) ==
    DrainLines([c EXCEPT !.buffer = chunk])

\* buffer += decoder.decode(value, {stream: true}); process complete lines
OnChunk(c, chunk) ==
    DrainLines([c EXCEPT !.buffer = c.buffer \o chunk])

\* if (done): the trailing buffered line; only data.results is looked at
OnDone(c) ==
    LET trailing == Trim(c.buffer)
    IN  IF ~StartsWith(trailing, DataPrefix) THEN c
        ELSE LET jsonString == Trim(Slice(trailing, 6))
             IN  IF jsonString = << >> THEN c
                 ELSE LET data == JsonParse(jsonString)
                      IN  IF data.ok /\ data.results
                          THEN [c EXCEPT !.completions = Append(c.completions, "results"),
                                         !.uploadProgress = 10000]
                          ELSE c

\* The outer catch of handleProceed: alert, onAnalysisComplete(null),
\* setUploadProgress(0)
OnReadError(c) ==
    [c EXCEPT !.alerts = Append(c.alerts, "Processing failed"),
              !.completions = Append(c.completions, "null"),
              !.uploadProgress = 0]

\* Sizes of the chunks reader.read() hands over (besides all that is left).
ChunkSizes == {1, 7, 20}

\* const { done, value } = await reader.read(), with a chunk
ReaderChunk ==
    /\ clientPc = "reading"
    /\ pos < Len(stream)
    /\ \E n \in (ChunkSizes \cup {Len(stream) - pos}) :
         /\ pos + n <= Len(stream)
         /\ consumer' = OnChunk(consumer, SubSeq(stream, pos + 1, pos + n))
         /\ pos' = pos + n
    /\ splitInLine' = (splitInLine \/ StartsWith(consumer'.buffer, <<"d">>))
    /\ UNCHANGED <<server, browser, concurrent, script, stream, clientPc, readFailed>>

\* reader.read() answers done: the body ended (or the connection was dropped
\* without an error) after pos characters
ReaderDone ==
    /\ clientPc = "reading"
    /\ consumer' = OnDone(consumer)
    /\ clientPc' = "finished"
    /\ UNCHANGED <<server, browser, concurrent, script, stream, pos, readFailed, splitInLine>>

\* reader.read() rejects: the exception leaves the loop for the outer catch
ReaderError ==
    /\ clientPc = "reading"
    /\ consumer' = OnReadError(consumer)
    /\ readFailed' = TRUE
    /\ clientPc' = "finished"
    /\ UNCHANGED <<server, browser, concurrent, script, stream, pos, splitInLine>>

\* What the server side sent on the stream: a sequence of lines, each with
\* its text and its line ending (enqueue writes "\n\n" after every event).
NoEvent == [progress |-> Undefined, step |-> "", results |-> FALSE, error |-> FALSE]
EventLine(ev) == [kind |-> "event", ev |-> ev, eol |-> <<LF, LF>>]
StepLine(p, s) == EventLine([NoEvent EXCEPT !.progress = p, !.step = s])
ResultsLine == EventLine([NoEvent EXCEPT !.progress = 100, !.results = TRUE])
ErrorLine == EventLine([NoEvent EXCEPT !.error = TRUE])
CommentLine == [kind |-> "comment", ev |-> NoEvent, eol |-> <<LF, LF>>]
BlankLine == [kind |-> "blank", ev |-> NoEvent, eol |-> <<LF>>]
BadLine == [kind |-> "bad", ev |-> [NoEvent EXCEPT !.progress = 10], eol |-> <<LF, LF>>]
CrLfLine == [StepLine(50, "B") EXCEPT !.eol = <<CR, LF>>]

\* The text of a line: 'data: ' + JSON.stringify(event), ': keep-alive'
\* (shortened), nothing, or a 'data: ' line whose JSON lost its last character.
LineText(l) ==
    CASE l.kind = "event" -> DataPrefix \o JsonStringify(l.ev)
      [] l.kind = "comment" -> KeepAliveText
      [] l.kind = "blank" -> << >>
      [] l.kind = "bad" ->
            DataPrefix \o SubSeq(JsonStringify(l.ev), 1, Len(JsonStringify(l.ev)) - 1)

\* The characters of the whole stream
RECURSIVE Render(_)
Render(lines) ==
    IF lines = << >> THEN << >>
    ELSE LineText(Head(lines)) \o Head(lines).eol \o Render(Tail(lines))

LineSamples ==
    {StepLine(10, "A"), StepLine(90, "B"), CrLfLine, ResultsLine, ErrorLine,
     CommentLine, BlankLine, BadLine}

\* The same lines, the last one without its line ending.
Unterminated(lines) ==
    [lines EXCEPT ![Len(lines)] = [lines[Len(lines)] EXCEPT !.eol = << >>]]

ShortScripts ==
    UNION {[1..n -> LineSamples] : n \in 1..MaxLines}

\* Streams as the orchestrator writes them: a completed and a failed run.
CompletedRun ==
    <<StepLine(5, "A"), CommentLine, StepLine(10, "A"), StepLine(90, "B"),
      StepLine(95, "A"), ResultsLine>>
FailedRun == <<StepLine(5, "A"), StepLine(10, "B"), CommentLine, ErrorLine>>

Scripts ==
    LET terminated == ShortScripts \cup {CompletedRun, FailedRun}
    IN  terminated \cup {Unterminated(s) : s \in terminated}

----------------------------------------------------------------------------
(* Times in seconds: IEEE-754 doubles *)

\* A time is a non-negative double below 32, written as the integer number of
\* units of 2^-55 s it holds, in four limbs of 15 bits, lowest first.  Every
\* double met here (1/fps, the sums of these, whole seconds) is a whole
\* number of these units.
LimbBase == 2 ^ 15
ZeroTime == <<0, 0, 0, 0>>

\* d whole seconds, 0 <= d < 32
Seconds(d) == <<0, 0, 0, 1024 * d>>

\* const interval = 1 / fps: the double nearest to 1/rate
\* (1/5 is 0x3FC999999999999A = 7205759403792794 * 2^-55)
IntervalOf(rate) ==
    CASE rate = 1 -> <<0, 0, 0, 1024>>
      [] rate = 2 -> <<0, 0, 0, 512>>
      [] rate = 4 -> <<0, 0, 0, 256>>
      [] rate = 5 -> <<6554, 13107, 26214, 204>>
      [] rate = 8 -> <<0, 0, 0, 128>>

\* the exact sum of two times (limb 4 takes the last carry)
ExactSum(a, b) ==
    LET s1 == a[1] + b[1]
        s2 == a[2] + b[2] + (s1 \div LimbBase)
        s3 == a[3] + b[3] + (s2 \div LimbBase)
        s4 == a[4] + b[4] + (s3 \div LimbBase)
    IN  <<s1 % LimbBase, s2 % LimbBase, s3 % LimbBase, s4>>

\* number of bits of a non-negative integer
RECURSIVE BitLen(_)
BitLen(n) == IF n = 0 THEN 0 ELSE 1 + BitLen(n \div 2)

\* number of significant bits of a time
TimeBits(t) ==
    IF t[4] # 0 THEN 45 + BitLen(t[4])
    ELSE IF t[3] # 0 THEN 30 + BitLen(t[3])
    ELSE IF t[2] # 0 THEN 15 + BitLen(t[2])
    ELSE BitLen(t[1])

\* An exact value rounded to the nearest double (53 significant bits, ties
\* to even); at most 14 bits are dropped for the values met here.
RoundToDouble(t) ==
    LET drop == TimeBits(t) - 53
        unit == 2 ^ drop
        low == t[1] % unit
        odd == (t[1] \div unit) % 2 = 1
        up == 2 * low > unit \/ (2 * low = unit /\ odd)
        kept == [t EXCEPT ![1] = t[1] - low]
    IN  IF drop <= 0 THEN t
        ELSE IF up THEN ExactSum(kept, <<unit, 0, 0, 0>>)
        ELSE kept

\* a + b on doubles
DoubleAdd(a, b) == RoundToDouble(ExactSum(a, b))

\* a >= b on doubles
TimeGeq(a, b) ==
    \/ a[4] > b[4]
    \/ a[4] = b[4] /\ a[3] > b[3]
    \/ a[4] = b[4] /\ a[3] = b[3] /\ a[2] > b[2]
    \/ a[4] = b[4] /\ a[3] = b[3] /\ a[2] = b[2] /\ a[1] >= b[1]

----------------------------------------------------------------------------
(* ClientVideoProcessor.extractFrames *)

\* What the options of a call may leave out.
NotGiven == 0

\* The closure of one call: const { fps, maxFrames = 200 } = options;
\* const interval = 1 / fps; let currentTime = 0; let frameNumber = 0
ExtractFramesCall(file, options) ==
    [fps |-> options.fps,
     maxFrames |-> IF options.maxFrames = NotGiven THEN 200 ELSE options.maxFrames,
     interval |-> IntervalOf(options.fps),
     duration |-> Seconds(file.duration),
     currentTime |-> ZeroTime,
     frameNumber |-> 0,
     frames |-> << >>,
     st |-> "loading"]

\* No call of extractFrames is running.
IdleExtractor ==
    [fps |-> 1, maxFrames |-> 0, interval |-> ZeroTime, duration |-> ZeroTime,
     currentTime |-> ZeroTime, frameNumber |-> 0, frames |-> << >>, st |-> "idle"]

\* extractFrame(): resolve(frames), or seek to currentTime
extractFrame(x) ==
    IF x.frameNumber >= x.maxFrames \/ TimeGeq(x.currentTime, x.duration)
    THEN [x EXCEPT !.st = "resolved"]
    ELSE [x EXCEPT !.st = "seeking"]

\* onSeeked: the frame is pushed, the counters advance, the timer is set
onSeeked(x) ==
    [x EXCEPT !.frames = Append(@, [dataUrl |-> "data:image/png",
                                    timestamp |-> x.currentTime,
                                    frameNumber |-> x.frameNumber + 1]),
              !.frameNumber = @ + 1,
              !.currentTime = DoubleAdd(@, x.interval),
              !.st = "timer"]

\* the 'loadedmetadata' event
Extract_LoadedMetadata ==
    /\ extractor.st = "loading"
    /\ extractor' = extractFrame(extractor)
    /\ UNCHANGED <<server, client, concurrent, image, storage, submission, submitPc, ui, dicom, formData>>

\* the 'seeked' event
Extract_Seeked ==
    /\ extractor.st = "seeking"
    /\ extractor' = onSeeked(extractor)
    /\ UNCHANGED <<server, client, concurrent, image, storage, submission, submitPc, ui, dicom, formData>>

\* setTimeout(extractFrame, 50) fires
Extract_Timer ==
    /\ extractor.st = "timer"
    /\ extractor' = extractFrame(extractor)
    /\ UNCHANGED <<server, client, concurrent, image, storage, submission, submitPc, ui, dicom, formData>>

\* the 'error' event: reject(new Error('Video loading failed: ...'))
Extract_Error ==
    /\ extractor.st \in {"loading", "seeking"}
    /\ extractor' = [extractor EXCEPT !.st = "rejected"]
    /\ UNCHANGED <<server, client, concurrent, image, storage, submission, submitPc, ui, dicom, formData>>

----------------------------------------------------------------------------
(* DicomProcessor.processFiles *)

\* The instance-number tag (0020,0013) of a file as dataSet.intString reads
\* it: absent, not a number, or an integer.
TagAbsent == [kind |-> "absent", v |-> 0]
TagNaN == [kind |-> "nan", v |-> 0]
TagInt(n) == [kind |-> "int", v |-> n]

\* instanceNumber of the metadata: undefined, or a number
NoInstance == [defined |-> FALSE, v |-> 0]
Instance(n) == [defined |-> TRUE, v |-> n]

\* getNumber(tag): value ? parseInt(value) : undefined
getNumber(tag) ==
    IF tag.kind = "int" /\ tag.v # 0 THEN Instance(tag.v) ELSE NoInstance

\* a.metadata.instanceNumber || 0
InstanceKey(entry) ==
    IF entry.instanceNumber.defined THEN entry.instanceNumber.v ELSE 0

\* Variant: an entry goes in front of the entries of equal instance number.
InsertSorted_Unstable(sorted, e) ==
    LET before == {i \in DOMAIN sorted : InstanceKey(sorted[i]) < InstanceKey(e)}
        k == Cardinality(before)
    IN  SubSeq(sorted, 1, k) \o <<e>> \o SubSeq(sorted, k + 1, Len(sorted))

\* One entry put into a sorted array, behind the entries that compare <= 0
\* to it.
InsertSorted(sorted, e) ==
    LET before == {i \in DOMAIN sorted : InstanceKey(sorted[i]) <= InstanceKey(e)}
        k == Cardinality(before)
    IN  SubSeq(sorted, 1, k) \o <<e>> \o SubSeq(sorted, k + 1, Len(sorted))

\* results.sort((a, b) => aInstance - bInstance): Array.prototype.sort is a
\* stable sort
RECURSIVE SortByInstance(_)
SortByInstance(results) ==
    IF results = << >> THEN << >>
    ELSE InsertSorted(SortByInstance(SubSeq(results, 1, Len(results) - 1)),
                      results[Len(results)])

\* processFiles(files) is called
ProcessFilesCall(files) ==
    [files |-> files, next |-> 1, results |-> << >>,
     st |-> IF files = << >> THEN "returned" ELSE "running"]

\* No call of processFiles is running.
IdleDicom == [files |-> << >>, next |-> 1, results |-> << >>, st |-> "idle"]

\* One turn of the for-of loop: processSingleFile(file) settles; its result is
\* pushed, its error is caught and logged.  After the last file the results
\* are sorted and returned.
ProcessedFile(d) ==
    LET file == d.files[d.next]
        last == d.next = Len(d.files)
        pushed == IF file.parses
                  THEN Append(d.results, [file |-> d.next,
                                          instanceNumber |-> getNumber(file.tag)])
                  ELSE d.results
    IN  [d EXCEPT !.next = @ + 1,
                  !.results = IF last THEN SortByInstance(pushed) ELSE pushed,
                  !.st = IF last THEN "returned" ELSE "running"]

Dicom_ProcessFile ==
    /\ dicom.st = "running"
    /\ dicom' = ProcessedFile(dicom)
    /\ UNCHANGED <<server, client, concurrent, image, storage, submission, submitPc, ui, extractor, formData>>

----------------------------------------------------------------------------
(* DicomProcessor.convertToImage: auto-windowing of a grayscale buffer *)

\* No buffer is being converted.
IdleImage ==
    [st |-> "idle", pixelArray |-> << >>, photometricInterpretation |-> "",
     min |-> 0, max |-> 0, data |-> << >>]

\* convertToImage entered with samplesPerPixel === 1: pixelArray is read
ConvertToImageCall(pixels, photometric) ==
    [IdleImage EXCEPT !.st = "minmax", !.pixelArray = pixels,
                      !.photometricInterpretation = photometric]

\* for (const value of pixelArray) { if (value < min) ...; if (value > max) ... }
MinOf(pixels) == CHOOSE v \in {pixels[i] : i \in DOMAIN pixels} :
                     \A i \in DOMAIN pixels : v <= pixels[i]
MaxOf(pixels) == CHOOSE v \in {pixels[i] : i \in DOMAIN pixels} :
                     \A i \in DOMAIN pixels : v >= pixels[i]

\* windowWidth = max - min; twice windowCenter = (max + min) / 2.  Pixel
\* values are integers below 2^16: the sums, differences and halves of the
\* code are exact in doubles.
windowWidth(img) == img.max - img.min
TwiceCenter(img) == img.max + img.min

\* twice lower = windowCenter - (windowWidth / 2), twice upper = ... + ...
TwiceLower(img) == TwiceCenter(img) - windowWidth(img)
TwiceUpper(img) == TwiceCenter(img) + windowWidth(img)

\* The bytes that storing x = num / den into the Uint8ClampedArray can give:
\* the nearest integer; where x lies exactly halfway between two integers,
\* either of them (the double that the code computes for x may fall on
\* either side, or on the tie, which is rounded to even).
Rounded(num, den) ==
    LET floor == num \div den
        rest == num % den
    IN  IF 2 * rest < den THEN {floor}
        ELSE IF 2 * rest > den THEN {floor + 1}
        ELSE {floor, floor + 1}

\* if (pixelValue <= lower) 0 else if (pixelValue >= upper) 255
\* else ((pixelValue - lower) / windowWidth) * 255
Normalized(pixelValue, img) ==
    IF 2 * pixelValue <= TwiceLower(img) THEN {0}
    ELSE IF 2 * pixelValue >= TwiceUpper(img) THEN {255}
    ELSE Rounded(255 * (2 * pixelValue - TwiceLower(img)), 2 * windowWidth(img))

\* Variant: the photometric interpretation is not looked at.
Inverted_Never(values, photometric) == values

\* if (photometricInterpretation === 'MONOCHROME1') normalized = 255 - normalized
Inverted(values, photometric) ==
    IF photometric = "MONOCHROME1" THEN {255 - v : v \in values} ELSE values

\* The min/max loop and the window/level computation.
Convert_Window ==
    /\ image.st = "minmax"
    /\ image' = [image EXCEPT !.st = "windowing",
                              !.min = MinOf(image.pixelArray),
                              !.max = MaxOf(image.pixelArray)]
    /\ UNCHANGED <<server, client, concurrent, submitter, storage>>

\* One pass of the windowing loop: data[idx] = normalized for pixel i; after
\* the last pixel the image is drawn.
Convert_Pixel ==
    /\ image.st = "windowing"
    /\ LET i == Len(image.data) + 1
       IN  \E byte \in Inverted(Normalized(image.pixelArray[i], image),
                                image.photometricInterpretation) :
             image' = [image EXCEPT
                          !.data = Append(@, byte),
                          !.st = IF i = Len(image.pixelArray) THEN "done"
                                 ELSE "windowing"]
    /\ UNCHANGED <<server, client, concurrent, submitter, storage>>

----------------------------------------------------------------------------
(* The upload components: SinglePageUpload.handleProceed, VideoUpload.handleFile *)

\* const fps = 5
fps == 5

\* { fps, maxFrames: Math.min(fps * 30, 200) }
ComponentOptions == [fps |-> fps, maxFrames |-> Min(fps * 30, 200)]

\* const validTypes = ['video/mp4', 'video/avi', 'video/mov', 'video/wmv']
validTypes == {"video/mp4", "video/avi", "video/mov", "video/wmv"}

\* const maxSize = 100 * 1024 * 1024
maxSize == 100 * 1024 * 1024

NoAlert == ""

\* validateFile(file): the error, NoAlert for { valid: true }
validateFile(file) ==
    IF file.type \notin validTypes
    THEN "Please upload a valid video file (MP4, AVI, MOV, WMV)"
    ELSE IF file.size > maxSize THEN "File size must be less than 100MB"
    ELSE NoAlert

\* The checks handleProceed makes before onAnalysisStart(): the text of the
\* alert it returns after, NoAlert when it goes on.
handleProceedAlert(sub) ==
    IF sub.uploadMode = "video" /\ ~sub.file.selected
    THEN "Please select a video file first"
    ELSE IF sub.uploadMode = "video" /\ validateFile(sub.file) # NoAlert
    THEN validateFile(sub.file)
    ELSE IF sub.uploadMode = "dicom" /\ Len(sub.dicomFiles) = 0
    THEN "Please select DICOM files first"
    ELSE IF Trim(sub.problem) = << >>
    THEN "Please describe the clinical problem or question"
    ELSE NoAlert

\* The checks handleFile makes before onAnalysisStart().
handleFileAlert(sub) == validateFile(sub.file)

\* An empty FormData.
NewFormData ==
    [uploadMode |-> "", hasProblem |-> FALSE, problem |-> << >>,
     frameCount |-> << >>, frameKeys |-> << >>]

\* frames.forEach((frame, index) => formData.append(`frame_${index}`, ...)):
\* the indices the frame_ fields are appended under, in order
FrameKeys(n) == [k \in 1..n |-> k - 1]

\* Variant: the frame_ fields are named after frameNumber, which starts at 1.
AppendFrames_ByFrameNumber(fd, n) ==
    [fd EXCEPT !.frameCount = NumberToText(n),
               !.frameKeys = [k \in 1..n |-> k]]

\* formData.append('frameCount', frames.length.toString()) and the forEach
\* that appends frame_<index>; n is the length of the array
AppendFrames(fd, n) ==
    [fd EXCEPT !.frameCount = NumberToText(n), !.frameKeys = FrameKeys(n)]

\* handleProceed: formData.append('uploadMode', ...); append('problem', problem.trim())
ProceedFormData(sub) ==
    [NewFormData EXCEPT !.uploadMode = sub.uploadMode,
                        !.hasProblem = TRUE,
                        !.problem = Trim(sub.problem)]

\* handleFile: if (problemInfo?.problem) formData.append('problem', ...)
FileFormData(sub) ==
    IF sub.problem # << >>
    THEN [NewFormData EXCEPT !.hasProblem = TRUE, !.problem = sub.problem]
    ELSE NewFormData

\* The form as the POST handler reads it: frameCount, and frame_<i> for the
\* indices below it.
ServerForm(fd) ==
    LET n == TextToNumber(fd.frameCount)
        keys == {fd.frameKeys[k] : k \in DOMAIN fd.frameKeys}
    IN  [frameCount |-> IntField(n),
         kinds |-> [i \in 0..(n - 1) |-> IF i \in keys THEN "data" ELSE "none"],
         meta |-> NoMeta]

\* Nothing was submitted.
IdleUi == [started |-> 0, alerts |-> << >>, network |-> << >>]

\* The component is called: validation, then onAnalysisStart() and the code
\* up to the first await.
Submit_Validate ==
    /\ submitPc = "ready"
    /\ LET sub == submission
           single == sub.component = "SinglePageUpload"
           text == IF single THEN handleProceedAlert(sub) ELSE handleFileAlert(sub)
       IN  IF text # NoAlert
           THEN /\ ui' = [ui EXCEPT !.alerts = Append(@, text)]
                /\ submitPc' = "rejected"
                /\ UNCHANGED <<extractor, formData>>
           ELSE IF single
           THEN /\ ui' = [ui EXCEPT !.started = @ + 1,
                                    !.network = Append(@, "storage")]
                /\ submitPc' = "upload"
                /\ formData' = ProceedFormData(sub)
                /\ UNCHANGED extractor
           ELSE /\ ui' = [ui EXCEPT !.started = @ + 1]
                /\ submitPc' = "extract"
                /\ extractor' = ExtractFramesCall(sub.file, ComponentOptions)
                /\ UNCHANGED formData
    /\ UNCHANGED <<server, client, concurrent, image, storage, submission, dicom>>

\* catch (error): alert('Processing failed: ...'); onAnalysisComplete(null)
SubmitCatch ==
    /\ ui' = [ui EXCEPT !.alerts = Append(@, "Processing failed")]
    /\ submitPc' = "failed"

\* uploadVideoToSupabase / uploadDicomFilesToSupabase settles
Submit_Uploaded ==
    /\ submitPc = "upload"
    /\ \E ok \in BOOLEAN :
         IF ~ok THEN SubmitCatch /\ UNCHANGED <<extractor, dicom>>
         ELSE IF submission.uploadMode = "video"
         THEN /\ extractor' = ExtractFramesCall(submission.file, ComponentOptions)
              /\ submitPc' = "extract"
              /\ UNCHANGED <<ui, dicom>>
         ELSE /\ dicom' = ProcessFilesCall(submission.dicomFiles)
              /\ submitPc' = "processFiles"
              /\ UNCHANGED <<ui, extractor>>
    /\ UNCHANGED <<server, client, concurrent, image, storage, submission, formData>>

\* extractFrames rejected
Submit_ExtractFailed ==
    /\ submitPc = "extract"
    /\ extractor.st = "rejected"
    /\ SubmitCatch
    /\ UNCHANGED <<server, client, concurrent, image, storage, submission, extractor, dicom, formData>>

\* The frames are there: the form is completed and
\* fetch('/api/analyze-frames', { method: 'POST', body: formData }) sends it.
Submit_Transmit ==
    /\ \/ submitPc = "extract" /\ extractor.st = "resolved"
       \/ submitPc = "processFiles" /\ dicom.st = "returned"
    /\ LET n == IF submitPc = "extract" THEN Len(extractor.frames)
                ELSE Len(dicom.results)
           fd == IF submission.component = "SinglePageUpload" THEN formData
                 ELSE FileFormData(submission)
       IN  formData' = AppendFrames(fd, n)
    /\ ui' = [ui EXCEPT !.network = Append(@, "POST")]
    /\ submitPc' = "sent"
    /\ form' = ServerForm(formData')
    /\ pc' = "start"
    /\ UNCHANGED <<variant, opts, backend, events, heartbeat, closed, tempDir,
                   batchStart, frames, rs, invocations, dbWrites, perFrame,
                   analysis, fetchFailed, keepAlives, cancelled>>
    /\ UNCHANGED <<client, concurrent, image, storage, submission, extractor, dicom>>

----------------------------------------------------------------------------
(* lib/supabase: uploadWithRetry *)

Needle503 == <<"5", "0", "3">>
Needle504 == <<"5", "0", "4">>
NeedleNetwork == <<"n", "e", "t", "w", "o", "r", "k">>

\* Errors of the storage client: a message and a name.
UploadError(message, name) == [message |-> message, name |-> name]

ErrTimeout == UploadError(<<"u", "p", " ">> \o NeedleTimeout, "StorageUnknownError")
Err504 == UploadError(<<"G", "W", " ">> \o Needle504, "StorageApiError")
ErrStatus503 == UploadError(Needle503 \o <<" ", "b", "u", "s", "y">>, "StorageApiError")
ErrNetwork == UploadError(NeedleNetwork \o <<" ", "d", "o", "w", "n">>, "TypeError")
ErrDenied == UploadError(<<"d", "e", "n", "i", "e", "d">>, "StorageApiError")
ErrCapital == UploadError(<<"T", "i", "m", "e", "o", "u", "t">>, "Error")
ErrNamed == UploadError(<<"f", "e", "t", "c", "h">>, "NetworkError")

UploadErrors ==
    {ErrTimeout, Err504, ErrStatus503, ErrNetwork, ErrDenied, ErrCapital, ErrNamed}

\* What one call of supabase.storage.upload does: it answers { data }, it
\* answers { error }, or it throws.
Uploaded == [kind |-> "data", error |-> UploadError(<< >>, "")]
Returned(e) == [kind |-> "error", error |-> e]
Thrown(e) == [kind |-> "throw", error |-> e]

\* error.message.includes('timeout') || includes('504') || includes('503')
ReturnedRetryable(e) ==
    \/ Includes(e.message, NeedleTimeout)
    \/ Includes(e.message, Needle504)
    \/ Includes(e.message, Needle503)

\* const isRetryable = ... in the catch block
CaughtRetryable(e) ==
    \/ Includes(e.message, NeedleTimeout)
    \/ Includes(e.message, Needle504)
    \/ Includes(e.message, Needle503)
    \/ Includes(e.message, NeedleNetwork)
    \/ e.name = "NetworkError"

\* const delay = baseDelay * Math.pow(2, attempt)
UploadDelay(u) == u.baseDelay * Pow2(u.attempt)

\* new Error(`Failed to upload after ${maxRetries} attempts: ...`)
FailedAfter(e) == [wrapped |-> TRUE, error |-> e]
\* throw error
Original(e) == [wrapped |-> FALSE, error |-> e]

\* for (...; attempt < maxRetries; ...): the next upload is sent, or the loop
\* is left and the final throw is reached
LoopHead(u) ==
    IF u.attempt < u.maxRetries
    THEN [u EXCEPT !.st = "uploading"]
    ELSE [u EXCEPT !.st = "thrown", !.thrown = FailedAfter(u.lastError)]

\* uploadWithRetry(blob, filePath, maxRetries = 3, baseDelay = 1000)
UploadWithRetryCall(retries, base, answers) ==
    LoopHead([maxRetries |-> retries, baseDelay |-> base,
              answers |-> answers, attempt |-> 0,
              lastError |-> UploadError(<< >>, ""),
              attempts |-> << >>, sleeps |-> << >>,
              thrown |-> Original(UploadError(<< >>, "")), st |-> "idle"])

IdleUpload ==
    [maxRetries |-> 3, baseDelay |-> 1000, answers |-> {}, attempt |-> 0,
     lastError |-> UploadError(<< >>, ""), attempts |-> << >>,
     sleeps |-> << >>, thrown |-> Original(UploadError(<< >>, "")),
     st |-> "idle"]

\* await new Promise(resolve => setTimeout(resolve, delay))
Sleep(u, e) ==
    [u EXCEPT !.lastError = e,
              !.sleeps = Append(@, [delay |-> UploadDelay(u),
                                    after |-> u.attempt + 1]),
              !.st = "sleeping"]

\* Variant: the catch block retries whatever the error is.
UploadCatch_RetryAll(u, e) ==
    IF u.attempt < u.maxRetries - 1
    THEN Sleep(u, e)
    ELSE [u EXCEPT !.lastError = e, !.thrown = Original(e), !.st = "thrown"]

\* catch (error: any) { ... }
UploadCatch(u, e) ==
    IF CaughtRetryable(e) /\ u.attempt < u.maxRetries - 1
    THEN Sleep(u, e)
    ELSE [u EXCEPT !.lastError = e, !.thrown = Original(e), !.st = "thrown"]

\* The upload of this attempt settles with answer a.
UploadSettled(u, a) ==
    LET v == [u EXCEPT !.attempts = Append(@, a)]
    IN  IF a.kind = "data" THEN [v EXCEPT !.st = "returned"]
        ELSE IF a.kind = "error"
        THEN IF ReturnedRetryable(a.error) THEN Sleep(v, a.error)
             ELSE UploadCatch(v, a.error)
        ELSE UploadCatch(v, a.error)

Upload_Settled ==
    /\ uploadRetry.st = "uploading"
    /\ \E a \in uploadRetry.answers : uploadRetry' = UploadSettled(uploadRetry, a)
    /\ UNCHANGED <<server, client, concurrent, image, submitter, batches>>

\* The timer of the sleep fires: continue
Upload_Wake ==
    /\ uploadRetry.st = "sleeping"
    /\ uploadRetry' = LoopHead([uploadRetry EXCEPT !.attempt = @ + 1])
    /\ UNCHANGED <<server, client, concurrent, image, submitter, batches>>

----------------------------------------------------------------------------
(* lib/supabase: uploadFramesInBatches *)

\* frames.slice(i, i + batchSize): the indices of the batch, 0-based
BatchOf(b) == {k \in 0..(b.total - 1) : b.i <= k /\ k < b.i + b.batchSize}

\* The head of the for loop: the uploads of the next batch are issued and
\* Promise.all awaited, or results is returned.
IssueBatch(b) ==
    IF b.i < b.total
    THEN [b EXCEPT !.inFlight = @ \cup BatchOf(b),
                   !.issued = Append(@, BatchOf(b)),
                   !.st = "awaiting"]
    ELSE [b EXCEPT !.st = "returned"]

\* uploadFramesInBatches(frames, sessionId, batchSize = 10, onProgress)
UploadFramesInBatchesCall(total, batchSize, onProgress) ==
    IssueBatch([total |-> total, batchSize |-> batchSize,
                onProgress |-> onProgress, i |-> 0, inFlight |-> {},
                issued |-> << >>, fulfilled |-> {}, rejected |-> {},
                results |-> 0, progress |-> << >>, st |-> "idle"])

IdleBatches ==
    [total |-> 0, batchSize |-> 10, onProgress |-> FALSE, i |-> 0,
     inFlight |-> {}, issued |-> << >>, fulfilled |-> {}, rejected |-> {},
     results |-> 0, progress |-> << >>, st |-> "idle"]

\* One uploadFrameFromClient settles.  A rejection rejects the Promise.all
\* that is awaited: uploadFramesInBatches throws.
Batches_UploadSettled ==
    /\ \E k \in batches.inFlight, ok \in BOOLEAN :
         batches' =
            [batches EXCEPT !.inFlight = @ \ {k},
                            !.fulfilled = IF ok THEN @ \cup {k} ELSE @,
                            !.rejected = IF ok THEN @ ELSE @ \cup {k},
                            !.st = IF ~ok /\ @ = "awaiting" THEN "thrown" ELSE @]
    /\ UNCHANGED <<server, client, concurrent, image, submitter, uploadRetry>>

\* Variant: the callback is called with the count before the push.
AfterBatch_StaleCount(b) ==
    LET done == [b EXCEPT !.results = @ + Cardinality(BatchOf(b))]
    IN  IF b.onProgress
        THEN [done EXCEPT !.progress = Append(@, <<b.results, b.total>>)]
        ELSE done

\* results.push(...batchResults); if (onProgress) onProgress(results.length,
\* frames.length)
AfterBatch(b) ==
    LET done == [b EXCEPT !.results = @ + Cardinality(BatchOf(b))]
    IN  IF b.onProgress
        THEN [done EXCEPT !.progress = Append(@, <<done.results, b.total>>)]
        ELSE done

\* Variant: the loop goes on as soon as one upload of the batch is fulfilled.
BatchSettled_Any(b) == BatchOf(b) \cap b.fulfilled # {}

\* Promise.all(batchPromises) is fulfilled: every upload of the batch is
BatchSettled(b) == BatchOf(b) \subseteq b.fulfilled

\* The await of Promise.all returns: the results are pushed, the callback is
\* called, i += batchSize and the loop head runs.
Batches_Resume ==
    /\ batches.st = "awaiting"
    /\ BatchSettled(batches)
    /\ batches' = IssueBatch([AfterBatch(batches) EXCEPT !.i = @ + batches.batchSize])
    /\ UNCHANGED <<server, client, concurrent, image, submitter, uploadRetry>>

----------------------------------------------------------------------------
(* The browser at rest *)

\* No submission is under way.
BrowserAtRest ==
    /\ submission = [component |-> "SinglePageUpload", uploadMode |-> "video",
                     file |-> [selected |-> FALSE, type |-> "", size |-> 0,
                               duration |-> 0],
                     dicomFiles |-> << >>, problem |-> << >>]
    /\ submitPc = "idle"
    /\ ui = IdleUi
    /\ extractor = IdleExtractor
    /\ dicom = IdleDicom
    /\ formData = NewFormData

BrowserIdle ==
    /\ BrowserAtRest
    /\ batches = IdleBatches
    /\ uploadRetry = IdleUpload
    /\ image = IdleImage

----------------------------------------------------------------------------
(* Inputs and specifications *)

Err503 == MkError(NumStatus(503), NoStatus, "", "", MsgEmpty)
Err400 == MkError(NumStatus(400), NoStatus, "", "", MsgBadRequest)

\* frameAnalyses with n entries whose confidence is 1.5
Entries(n) == JsArray([i \in 1..n |-> FrameEntry(JsNumber(150))])

ProseModerate ==
    <<"M", "o", "d", "e", "r", "a", "t", "e", " ", "e", "d", "e", "m", "a">>

\* The texts a successful call answers with in the runs of the handler: the
\* JSON asked for, prose, nothing, and JSON of another shape.
OrchestratorTexts ==
    {Text(<< >>, Overall(JsString(High), Entries(n)), << >>) : n \in 0..MaxPerFrame}
    \cup {Text(ProseModerate, NoJson, << >>),
          Text(<< >>, NoJson, << >>),
          Text(<< >>, Overall(JsString(Low), JsNumber(500)), << >>),
          Text(<< >>, Overall(JsString(Low), JsArray(<<JsNull>>)), << >>)}

Succeeds == [kind |-> "succeeds", errs |-> {}, texts |-> OrchestratorTexts]
Always(e) == [kind |-> "always", errs |-> {e}, texts |-> OrchestratorTexts]
Flaky(es) == [kind |-> "flaky", errs |-> es, texts |-> OrchestratorTexts]

\* Retry options: GPT_MAX_RETRIES / GPT_RETRY_BASE_DELAY_MS from the environment
RetryOpts ==
    [maxRetries : {NotFinite} \cup {Finite(n) : n \in 0..MaxRetriesBound},
     baseDelayMs : {NotFinite, Finite(1), Finite(500), Finite(3000)}]

OrchestratorOpts ==
    {[maxRetries |-> Finite(DefaultMaxRetries), baseDelayMs |-> Finite(DefaultBaseDelayMs)],
     [maxRetries |-> NotFinite, baseDelayMs |-> NotFinite],
     [maxRetries |-> Finite(1), baseDelayMs |-> Finite(3000)]}

OrchestratorBackends ==
    {Succeeds, Always(Err503), Always(Err400), Flaky({Err503, Err400})}

RetryBackends ==
    {Succeeds} \cup {Always(e) : e \in ErrorSamples}
    \cup {Flaky({Err503, Err400, NilError})}

\* No response has reached the client's reader loop.
ClientIdle ==
    /\ script = << >>
    /\ stream = << >>
    /\ pos = 0
    /\ consumer = InitialConsumer
    /\ clientPc = "idle"
    /\ readFailed = FALSE
    /\ splitInLine = FALSE

\* The server side at rest, for the runs of the client alone.
ServerIdle ==
    /\ variant = "openai"
    /\ opts = [maxRetries |-> NotFinite, baseDelayMs |-> NotFinite]
    /\ form = [frameCount |-> IntField(0), kinds |-> [i \in {} |-> "none"],
               meta |-> NoMeta]
    /\ backend = Succeeds
    /\ pc = "client"
    /\ events = << >>
    /\ heartbeat = "unset"
    /\ closed = FALSE
    /\ tempDir = "absent"
    /\ batchStart = 0
    /\ frames = << >>
    /\ rs = IdleRetry
    /\ invocations = << >>
    /\ dbWrites = << >>
    /\ perFrame = 0
    /\ analysis = NoAnalysis
    /\ fetchFailed = FALSE
    /\ keepAlives = << >>
    /\ cancelled = FALSE

Init ==
    /\ variant \in {"openai", "gemini"}
    /\ opts \in OrchestratorOpts
    /\ form \in Forms
    /\ backend \in OrchestratorBackends
    /\ pc = "start"
    /\ events = << >>
    /\ heartbeat = "unset"
    /\ closed = FALSE
    /\ tempDir = "absent"
    /\ batchStart = 0
    /\ frames = << >>
    /\ rs = IdleRetry
    /\ invocations = << >>
    /\ dbWrites = << >>
    /\ perFrame = 0
    /\ analysis = NoAnalysis
    /\ fetchFailed = FALSE
    /\ keepAlives = << >>
    /\ cancelled = FALSE
    /\ ClientIdle
    /\ ConcurrentIdle
    /\ BrowserIdle

Next ==
    \/ POST_Start
    \/ POST_ParseForm
    \/ POST_Mkdir
    \/ POST_Batch
    \/ POST_FramesSaved
    \/ WithRetryInvoke
    \/ WithRetryReturn
    \/ WithRetryCatch
    \/ Analyze_MetadataSettled
    \/ POST_AnalysisReturned
    \/ POST_AnalysisThrown
    \/ POST_SaveSession
    \/ POST_SaveFrame
    \/ POST_Cleanup
    \/ HeartbeatTick

Spec == Init /\ [][Next]_vars

\* The same runs, with a client that may close the connection at any point.
NextCancel ==
    \/ Next
    \/ ClientDisconnect

SpecCancel == Init /\ [][NextCancel]_vars

\* The stream consumer on its own: any stream of Scripts, cut into chunks in
\* any way, ended or failed at any point.
InitClient ==
    /\ ServerIdle
    /\ ConcurrentIdle
    /\ script \in Scripts
    /\ stream = Render(script)
    /\ pos = 0
    /\ consumer = InitialConsumer
    /\ clientPc = "reading"
    /\ readFailed = FALSE
    /\ splitInLine = FALSE
    /\ BrowserIdle

NextClient ==
    \/ ReaderChunk
    \/ ReaderDone
    \/ ReaderError

SpecClient == InitClient /\ [][NextClient]_vars

\* withRetry on its own: one wrapped call, any options, any backend.
InitRetry ==
    /\ variant = "openai"
    /\ opts \in RetryOpts
    /\ form = [frameCount |-> IntField(0), kinds |-> [i \in {} |-> "none"],
               meta |-> NoMeta]
    /\ backend \in RetryBackends
    /\ pc = "withRetry"
    /\ events = << >>
    /\ heartbeat = "unset"
    /\ closed = FALSE
    /\ tempDir = "absent"
    /\ batchStart = 0
    /\ frames = << >>
    /\ rs = NewRetry("all-frames", << >>)
    /\ invocations = << >>
    /\ dbWrites = << >>
    /\ perFrame = 0
    /\ analysis = NoAnalysis
    /\ fetchFailed = FALSE
    /\ keepAlives = << >>
    /\ cancelled = FALSE
    /\ ClientIdle
    /\ ConcurrentIdle
    /\ BrowserIdle

NextRetry ==
    \/ WithRetryInvoke
    \/ WithRetryReturn
    \/ WithRetryCatch

SpecRetry == InitRetry /\ [][NextRetry]_vars

\* The user's inputs to the upload components.
NoFile == [selected |-> FALSE, type |-> "", size |-> 0, duration |-> 0]
VideoFile(type, size, duration) ==
    [selected |-> TRUE, type |-> type, size |-> size, duration |-> duration]

\* video.duration of the files, in whole seconds
Durations == {0, 1, 2, 3, 20, 31}

FileSamples ==
    {VideoFile(t, s, 1) :
        t \in {"video/mp4", "video/wmv", "video/quicktime", ""},
        s \in {1, maxSize, maxSize + 1}}
    \cup {VideoFile("video/mp4", 1, d) : d \in Durations}

DicomFile(parses, tag) == [parses |-> parses, tag |-> tag]
Unparsable == DicomFile(FALSE, TagAbsent)
DicomFileSamples ==
    {Unparsable}
    \cup {DicomFile(TRUE, t) : t \in {TagAbsent, TagNaN, TagInt(0), TagInt(1), TagInt(2)}}

\* 5 files submitted, 1 fails to parse
PartialFailure ==
    <<DicomFile(TRUE, TagInt(2)), DicomFile(TRUE, TagAbsent), Unparsable,
      DicomFile(TRUE, TagInt(1)), DicomFile(TRUE, TagInt(2))>>

DicomSets ==
    {<< >>, <<Unparsable>>, <<Unparsable, Unparsable>>,
     <<DicomFile(TRUE, TagInt(1))>>,
     <<Unparsable, DicomFile(TRUE, TagInt(2)), DicomFile(TRUE, TagInt(1))>>,
     PartialFailure}

ProblemSamples == {<< >>, <<" ">>, <<"p">>, <<" ", "p", " ">>}

Submissions ==
    {[component |-> "SinglePageUpload", uploadMode |-> "video", file |-> f,
      dicomFiles |-> << >>, problem |-> p] :
        f \in FileSamples \cup {NoFile}, p \in ProblemSamples}
    \cup {[component |-> "SinglePageUpload", uploadMode |-> "dicom",
           file |-> NoFile, dicomFiles |-> d, problem |-> p] :
        d \in DicomSets, p \in ProblemSamples}
    \cup {[component |-> "VideoUpload", uploadMode |-> "video", file |-> f,
           dicomFiles |-> << >>, problem |-> p] :
        f \in FileSamples, p \in ProblemSamples}

\* A submission, from the click to the frames the POST handler resolves.
InitSubmit ==
    /\ ServerIdle
    /\ ClientIdle
    /\ ConcurrentIdle
    /\ submission \in Submissions
    /\ submitPc = "ready"
    /\ ui = IdleUi
    /\ extractor = IdleExtractor
    /\ dicom = IdleDicom
    /\ formData = NewFormData
    /\ batches = IdleBatches
    /\ uploadRetry = IdleUpload
    /\ image = IdleImage

NextSubmit ==
    \/ Submit_Validate
    \/ Submit_Uploaded
    \/ Submit_ExtractFailed
    \/ Submit_Transmit
    \/ Extract_LoadedMetadata
    \/ Extract_Seeked
    \/ Extract_Timer
    \/ Extract_Error
    \/ Dicom_ProcessFile
    \/ POST_Start
    \/ POST_ParseForm
    \/ POST_Mkdir
    \/ POST_Batch
    \/ POST_FramesSaved

SpecSubmit == InitSubmit /\ [][NextSubmit]_vars

\* extractFrames on its own: any duration, any options.
ExtractOptions ==
    [fps : {1, 2, 4, 5, 8}, maxFrames : {NotGiven, 1, MaxFewFrames, 150}]

InitExtract ==
    /\ ServerIdle
    /\ ClientIdle
    /\ ConcurrentIdle
    /\ submission = [component |-> "SinglePageUpload", uploadMode |-> "video",
                     file |-> NoFile, dicomFiles |-> << >>, problem |-> << >>]
    /\ submitPc = "idle"
    /\ ui = IdleUi
    /\ \E d \in Durations, o \in ExtractOptions :
         extractor = ExtractFramesCall(VideoFile("video/mp4", 1, d), o)
    /\ dicom = IdleDicom
    /\ formData = NewFormData
    /\ batches = IdleBatches
    /\ uploadRetry = IdleUpload
    /\ image = IdleImage

NextExtract ==
    \/ Extract_LoadedMetadata
    \/ Extract_Seeked
    \/ Extract_Timer
    \/ Extract_Error

SpecExtract == InitExtract /\ [][NextExtract]_vars

\* processFiles on its own: any files.
RECURSIVE FileLists(_)
FileLists(n) ==
    IF n = 0 THEN {<< >>}
    ELSE FileLists(n - 1)
         \cup {Append(l, f) : l \in {m \in FileLists(n - 1) : Len(m) = n - 1},
                              f \in DicomFileSamples}

InitDicom ==
    /\ ServerIdle
    /\ ClientIdle
    /\ ConcurrentIdle
    /\ submission = [component |-> "SinglePageUpload", uploadMode |-> "video",
                     file |-> NoFile, dicomFiles |-> << >>, problem |-> << >>]
    /\ submitPc = "idle"
    /\ ui = IdleUi
    /\ extractor = IdleExtractor
    /\ \E files \in FileLists(MaxDicomFiles) \cup {PartialFailure} :
         dicom = ProcessFilesCall(files)
    /\ formData = NewFormData
    /\ batches = IdleBatches
    /\ uploadRetry = IdleUpload
    /\ image = IdleImage

NextDicom == Dicom_ProcessFile

SpecDicom == InitDicom /\ [][NextDicom]_vars

\* uploadFramesInBatches on its own.
InitBatches ==
    /\ ServerIdle
    /\ ClientIdle
    /\ ConcurrentIdle
    /\ BrowserAtRest
    /\ \E total \in 0..MaxUploadFrames, size \in {1, 2, 3, 10},
          onProgress \in BOOLEAN :
         batches = UploadFramesInBatchesCall(total, size, onProgress)
    /\ uploadRetry = IdleUpload
    /\ image = IdleImage

NextBatches ==
    \/ Batches_UploadSettled
    \/ Batches_Resume

SpecBatches == InitBatches /\ [][NextBatches]_vars

\* uploadWithRetry on its own: one item, any storage client.
UploadAnswers ==
    {{Uploaded}}
    \cup {{Returned(e)} : e \in UploadErrors}
    \cup {{Thrown(e)} : e \in UploadErrors}
    \cup {{Uploaded, Returned(ErrTimeout), Thrown(ErrDenied)},
          {Returned(ErrNetwork), Thrown(ErrStatus503), Returned(ErrDenied)}}

InitUpload ==
    /\ ServerIdle
    /\ ClientIdle
    /\ ConcurrentIdle
    /\ BrowserAtRest
    /\ batches = IdleBatches
    /\ \E retries \in 1..MaxUploadRetries, base \in {1000, 250},
          answers \in UploadAnswers :
         uploadRetry = UploadWithRetryCall(retries, base, answers)
    /\ image = IdleImage

NextUpload ==
    \/ Upload_Settled
    \/ Upload_Wake

SpecUpload == InitUpload /\ [][NextUpload]_vars

\* The texts of the runs that follow one response through the handler.
SeqsUpTo(S, n) == UNION {[1..k -> S] : k \in 0..n}

UrgencyValues ==
    {JsUndefined, JsString(High), JsString(Medium),
     JsString(<<"H", "i", "g", "h">>), JsNumber(300)}

ConfidenceValues ==
    {JsUndefined, JsNull, JsNumber(-50), JsNumber(0), JsNumber(90), JsNumber(150),
     JsString(High), JsString(<<"1">>), JsBoolean(TRUE)}

EntryValues ==
    {FrameEntry(c) : c \in ConfidenceValues}
    \cup {JsNull, JsNumber(700), JsString(High)}

NoListValues ==
    {JsUndefined, JsNull, JsNumber(0), JsNumber(500), JsString(<< >>),
     JsString(High), JsBoolean(TRUE), FrameEntry(JsNumber(90))}

Objects(n) ==
    {Overall(u, fas) :
        u \in UrgencyValues,
        fas \in NoListValues \cup {JsArray(items) : items \in SeqsUpTo(EntryValues, n)}}

NoObjects ==
    {NoJson, JsNull, JsNumber(0), JsNumber(4200), JsString(High), JsString(<< >>),
     JsBoolean(TRUE), JsBoolean(FALSE), JsArray(<< >>)}

ProseUrgent ==
    <<"U", "R", "G", "E", "N", "T", ":", " ">>
ProseBraces ==
    <<"s", "e", "e", " ", "{", "a", "}", " ">>

\* what stands before and after the JSON value
Envelopes ==
    {<<<< >>, << >>>>, <<<<" ">>, <<LF>>>>, <<ProseModerate, <<".">>>>,
     <<ProseUrgent, << >>>>, <<ProseBraces, << >>>>, <<<< >>, ProseBraces>>}

ResponseTexts ==
    {Text(<< >>, json, << >>) : json \in Objects(MaxPerFrame)}
    \cup {Text(e[1], json, e[2]) : e \in Envelopes, json \in Objects(1) \cup NoObjects}

\* One inline frame, a backend that answers the first call with one text.
InitParse ==
    /\ variant = "openai"
    /\ opts = [maxRetries |-> NotFinite, baseDelayMs |-> NotFinite]
    /\ form = [frameCount |-> IntField(1), kinds |-> [i \in {0} |-> "data"],
               meta |-> NoMeta]
    /\ \E text \in ResponseTexts : backend = [Succeeds EXCEPT !.texts = {text}]
    /\ pc = "start"
    /\ events = << >>
    /\ heartbeat = "unset"
    /\ closed = FALSE
    /\ tempDir = "absent"
    /\ batchStart = 0
    /\ frames = << >>
    /\ rs = IdleRetry
    /\ invocations = << >>
    /\ dbWrites = << >>
    /\ perFrame = 0
    /\ analysis = NoAnalysis
    /\ fetchFailed = FALSE
    /\ keepAlives = << >>
    /\ cancelled = FALSE
    /\ ClientIdle
    /\ ConcurrentIdle
    /\ BrowserIdle

NextParse ==
    \/ POST_Start
    \/ POST_ParseForm
    \/ POST_Mkdir
    \/ POST_Batch
    \/ POST_FramesSaved
    \/ WithRetryInvoke
    \/ WithRetryReturn
    \/ POST_AnalysisReturned
    \/ POST_SaveSession
    \/ POST_SaveFrame
    \/ POST_Cleanup

SpecParse == InitParse /\ [][NextParse]_vars

\* Two requests arrive; each supplies a session identifier of its own or none.
InitConcurrent ==
    /\ ServerIdle
    /\ script = << >>
    /\ stream = << >>
    /\ pos = 0
    /\ consumer = InitialConsumer
    /\ clientPc = "idle"
    /\ readFailed = FALSE
    /\ splitInLine = FALSE
    /\ BrowserIdle
    /\ clock = 0
    /\ requests \in [Requests -> {NewRequest(f) : f \in {NoSessionId, Supplied(1), Supplied(2)}}]
    /\ \A r \in Requests : requests[r].field \in {NoSessionId, Supplied(r)}
    /\ disk = [dirs |-> {}, files |-> {}, foreign |-> {}]
    /\ rows = << >>

NextConcurrent ==
    \/ Clock_Tick
    \/ Concurrent_ParseForm
    \/ Concurrent_Mkdir
    \/ Concurrent_WriteFrame
    \/ Concurrent_SaveSession
    \/ Concurrent_Cleanup

SpecConcurrent == InitConcurrent /\ [][NextConcurrent]_vars

\* DICOM submissions of one inline frame: the metadata fields are blank or
\* given at the top level (the patient ID also as the placeholder the client
\* generates), metadata_0 is absent, unparsable, or any object of blank and
\* non-blank fields.
TopValues(f) ==
    IF f = "patientID" THEN {"", "ID-top", "patient-1700000000000"}
    ELSE IF f = "patientName" THEN {"", "NAME-top"}
    ELSE IF f = "studyDate" THEN {"", "20240131"}
    ELSE {"", "DICOM", "MR"}

FrameValues(f) ==
    IF f = "patientID" THEN {"", "ID-file"}
    ELSE IF f = "patientName" THEN {"", "NAME-file"}
    ELSE IF f = "studyDate" THEN {"", "20231124"}
    ELSE {"", "CT"}

MetaSamples ==
    {[top |-> t, metadata_0 |-> m] :
        t \in {x \in [MetadataFields -> {"", "ID-top", "patient-1700000000000",
                                          "NAME-top", "20240131", "DICOM", "MR"}] :
                   \A f \in MetadataFields : x[f] \in TopValues(f)},
        m \in {NoFrameMetadata, Unparsed}
              \cup {FrameMetadata(x) :
                      x \in {y \in [MetadataFields -> {"", "ID-file", "NAME-file",
                                                        "20231124", "CT"}] :
                                \A f \in MetadataFields : y[f] \in FrameValues(f)}}}

InitMeta ==
    /\ variant = "openai"
    /\ opts = [maxRetries |-> NotFinite, baseDelayMs |-> NotFinite]
    /\ \E m \in MetaSamples :
         form = [frameCount |-> IntField(1), kinds |-> [i \in {0} |-> "data"],
                 meta |-> m]
    /\ backend = Succeeds
    /\ pc = "start"
    /\ events = << >>
    /\ heartbeat = "unset"
    /\ closed = FALSE
    /\ tempDir = "absent"
    /\ batchStart = 0
    /\ frames = << >>
    /\ rs = IdleRetry
    /\ invocations = << >>
    /\ dbWrites = << >>
    /\ perFrame = 0
    /\ analysis = NoAnalysis
    /\ fetchFailed = FALSE
    /\ keepAlives = << >>
    /\ cancelled = FALSE
    /\ ClientIdle
    /\ ConcurrentIdle
    /\ BrowserIdle

NextMeta ==
    \/ POST_Start
    \/ POST_ParseForm
    \/ POST_Mkdir
    \/ POST_Batch
    \/ POST_FramesSaved
    \/ WithRetryInvoke

SpecMeta == InitMeta /\ [][NextMeta]_vars

\* Grayscale buffers of 1..MaxPixels pixels, 8-bit and 16-bit values.
PixelValues == {0, 1, 2, 3, 128, 255, 4095, 65535}
PixelBuffers == UNION {[1..n -> PixelValues] : n \in 1..MaxPixels}

InitWindow ==
    /\ ServerIdle
    /\ ClientIdle
    /\ ConcurrentIdle
    /\ submission = [component |-> "SinglePageUpload", uploadMode |-> "dicom",
                     file |-> [selected |-> FALSE, type |-> "", size |-> 0,
                               duration |-> 0],
                     dicomFiles |-> << >>, problem |-> << >>]
    /\ submitPc = "idle"
    /\ ui = IdleUi
    /\ extractor = IdleExtractor
    /\ dicom = IdleDicom
    /\ formData = NewFormData
    /\ batches = IdleBatches
    /\ uploadRetry = IdleUpload
    /\ \E pixels \in PixelBuffers, photometric \in {"MONOCHROME1", "MONOCHROME2"} :
         image = ConvertToImageCall(pixels, photometric)

NextWindow ==
    \/ Convert_Window
    \/ Convert_Pixel

SpecWindow == InitWindow /\ [][NextWindow]_vars

TypeOK ==
    /\ pc \in {"start", "formData", "mkdir", "batch", "analyze", "saveSession",
               "saveFrame", "cleanup", "done", "aborted", "withRetry",
               "client"}
    /\ heartbeat \in {"unset", "running", "cleared"}
    /\ tempDir \in {"absent", "staged", "deleted", "undeleted"}
    /\ rs.st \in {"idle", "ready", "awaiting", "sleeping", "returned", "thrown"}
    /\ clientPc \in {"idle", "reading", "finished"}
    /\ pos \in 0..Len(stream)
    /\ consumer.uploadProgress \in 0..10000
    /\ submitPc \in {"idle", "ready", "rejected", "upload", "extract",
                     "processFiles", "failed", "sent"}
    /\ extractor.st \in {"idle", "loading", "seeking", "timer", "resolved",
                         "rejected"}
    /\ extractor.frameNumber = Len(extractor.frames)
    /\ dicom.st \in {"idle", "running", "returned"}
    /\ batches.st \in {"idle", "awaiting", "returned", "thrown"}
    /\ uploadRetry.st \in {"idle", "uploading", "sleeping", "returned", "thrown"}

----------------------------------------------------------------------------
(* Properties *)

IsTerminal(e) == e.kind \in {"results", "error"}
TerminalIndices == {i \in DOMAIN events : IsTerminal(events[i])}
ErrorIndices == {i \in DOMAIN events : events[i].kind = "error"}
ResultsIndices == {i \in DOMAIN events : events[i].kind = "results"}
LastEvent == events[Len(events)]
Succeeded == pc = "done" /\ ResultsIndices # {}

\* C1: every run of the orchestrator ends with exactly one terminal event
\* (results or error, never both), no event follows the terminal event, and
\* a run stops only after it has emitted its terminal event and closed.
C1_SingleTerminalEvent ==
    /\ Cardinality(TerminalIndices) <= 1
    /\ \A i \in TerminalIndices : i = Len(events)
    /\ (TerminalIndices # {}) <=> (pc = "done")
    /\ closed <=> (pc = "done")
    /\ ~(ENABLED Next) => pc = "done"

\* A run that failed in the backend after retries ended with the one error.
C1_Witness ==
    /\ pc = "done"
    /\ rs.st = "thrown"
    /\ Len(rs.thrown) = DefaultMaxRetries + 1
    /\ LastEvent.kind = "error"

\* a/b <= c/d for events carrying the fractions a/b and c/d
ProgressLeq(e1, e2) == e1.num * e2.den <= e2.num * e1.den

\* C2: on a successful run with frameCount >= 1 the progress values emitted
\* are non-decreasing and the last one is exactly 100.
C2_MonotonicProgress ==
    (Succeeded /\ form.frameCount.numeric /\ form.frameCount.v >= 1) =>
        /\ \A i \in 1..(Len(events) - 1) : ProgressLeq(events[i], events[i + 1])
        /\ LastEvent.num = 100 * LastEvent.den

Always503 ==
    /\ backend.kind = "always"
    /\ \A e \in backend.errs : ~e.nil /\ e.status = NumStatus(503)

\* C3: when the backend call always throws a status-503 error, withRetry
\* calls it exactly 1 + maxRetries times and then throws that error.
C3_RetryExhaustion ==
    Always503 =>
        /\ rs.st # "returned"
        /\ Len(invocations) <= 1 + maxRetries
        /\ rs.st = "thrown" =>
              /\ Len(invocations) = 1 + maxRetries
              /\ rs.err \in backend.errs
        /\ rs.st # "thrown" => ENABLED NextRetry

C3_Witness ==
    /\ Always503
    /\ rs.st = "thrown"
    /\ maxRetries = DefaultMaxRetries
    /\ Len(invocations) = 4

RECURSIVE SumSeq(_)
SumSeq(q) == IF q = << >> THEN 0 ELSE Head(q) + SumSeq(Tail(q))

\* C4: the delay slept after the k-th failed attempt is
\* min(baseDelay * 2^(k-1) + jitter, 10000) with 0 <= jitter < baseDelay;
\* no delay exceeds 10000 ms and the delays of one call sum to at most
\* maxRetries * 10000 ms.
C4_BackoffDelays ==
    /\ Len(rs.delays) = Len(rs.jitters)
    /\ Len(rs.delays) <= maxRetries
    /\ \A k \in DOMAIN rs.delays :
          /\ 0 <= rs.jitters[k]
          /\ rs.jitters[k] < baseDelay
          /\ rs.delays[k] =
                IF baseDelay * (2 ^ (k - 1)) + rs.jitters[k] < 10000
                THEN baseDelay * (2 ^ (k - 1)) + rs.jitters[k]
                ELSE 10000
          /\ rs.delays[k] <= 10000
    /\ SumSeq(rs.delays) <= maxRetries * 10000

\* A third retry whose uncapped backoff is above the cap.
C4_Witness ==
    /\ Len(rs.delays) = 3
    /\ baseDelay * 4 + rs.jitters[3] > 10000
    /\ rs.delays[3] = 10000
    /\ rs.jitters[2] > 0

\* The error carries HTTP status 400 (its own status, or that of its cause).
Carries400(e) ==
    /\ ~e.nil
    /\ \/ e.status = NumStatus(400)
       \/ e.status = NoStatus /\ e.causeStatus = NumStatus(400)

\* The error names a transient network code or a transient message.
TransientCodeOrMessage(e) ==
    \/ e.code \in {"ETIMEDOUT", "ECONNRESET", "ENOTFOUND", "EAI_AGAIN"}
    \/ e.code = "" /\ e.causeCode \in {"ETIMEDOUT", "ECONNRESET", "ENOTFOUND", "EAI_AGAIN"}
    \/ Includes(ToLowerCase(e.message), NeedleTimeout)
    \/ Includes(ToLowerCase(e.message), NeedleUnavailable)

\* withRetry stopped at its first call: one invocation, no sleep, error thrown.
StoppedAtFirstCall ==
    /\ rs.st = "thrown"
    /\ Len(invocations) = 1
    /\ rs.delays = << >>
    /\ rs.err = rs.thrown[1]

\* C5 as stated: every status-400 error thrown by the first call makes
\* withRetry stop at that call, without sleeping.
C5_Original ==
    (rs.thrown # << >> /\ Carries400(rs.thrown[1])) => StoppedAtFirstCall

\* C5 amended: a status-400 error that names no transient network code and
\* no transient message makes withRetry stop at its first call, without
\* sleeping.
C5_NonRetryableShortCircuit ==
    (/\ rs.thrown # << >>
     /\ Carries400(rs.thrown[1])
     /\ ~TransientCodeOrMessage(rs.thrown[1])) => StoppedAtFirstCall

C5_Witness ==
    /\ rs.thrown # << >>
    /\ rs.thrown[1].status = NumStatus(400)
    /\ rs.thrown[1].message = MsgBadRequest
    /\ maxRetries > 0
    /\ StoppedAtFirstCall

\* The status of an error: its own if it has one, else that of its cause.
ClaimStatus(e) ==
    IF e.status \in {NoStatus, NumStatus(0)} THEN e.causeStatus ELSE e.status

\* Retryable as the claim lists it.
ClaimRetryable(e) ==
    /\ ~e.nil
    /\ \/ ClaimStatus(e).t = "num" /\ ClaimStatus(e).v = 429
       \/ ClaimStatus(e).t = "num" /\ ClaimStatus(e).v >= 500
       \/ TransientCodeOrMessage(e)

\* C6: an error is classified retryable exactly when its status is 429 or
\* >= 500, or its code is a transient network code, or its lower-cased
\* message contains 'timeout' or 'service is currently unavailable'; after
\* any other error withRetry throws on that attempt and does not sleep.
C6_RetryableClassification ==
    /\ \A e \in backend.errs : isRetryableError(e).retryable <=> ClaimRetryable(e)
    /\ rs.st = "sleeping" => ClaimRetryable(rs.err)
    /\ (rs.st = "thrown" /\ rs.attempt <= maxRetries) => ~ClaimRetryable(rs.err)
    /\ (rs.st \in {"sleeping", "thrown"} /\ ~ClaimRetryable(rs.err)) =>
          /\ rs.st = "thrown"
          /\ Len(rs.delays) = rs.attempt - 1

\* A mixed-case timeout message was retried; a near miss was not.
C6_Witness ==
    /\ rs.st = "sleeping"
    /\ rs.err.message = MsgRequestTimeout
    /\ rs.err.status = NumStatus(400)

\* The all-frames backend call failed on every attempt, retries exhausted.
Exhausted ==
    /\ rs.label = "all-frames"
    /\ rs.st = "thrown"
    /\ Len(rs.thrown) = 1 + maxRetries

\* C7: when the backend call fails on every attempt until the retries are
\* exhausted, the stream ends with one error event and no results event, and
\* the Record Store receives no insert at all.
C7_ExhaustedNoWrites ==
    Exhausted =>
        /\ dbWrites = << >>
        /\ ResultsIndices = {}
        /\ IF pc = "done"
           THEN Cardinality(ErrorIndices) = 1 /\ LastEvent.kind = "error"
           ELSE ErrorIndices = {} /\ ENABLED POST_AnalysisThrown

C7_Witness ==
    /\ Exhausted
    /\ pc = "done"
    /\ maxRetries = DefaultMaxRetries
    /\ frames # << >>

WriteFailed == \E i \in DOMAIN dbWrites : ~dbWrites[i].ok

\* C8: when the backend call succeeded and a Record Store insert (of the
\* session or of a frame) fails, the run still ends with progress 100 and the
\* results event, and no error event is emitted.
C8_PersistenceBestEffort ==
    WriteFailed =>
        /\ ErrorIndices = {}
        /\ pc \in {"cleanup", "done"}
        /\ pc = "done" => LastEvent.kind = "results" /\ LastEvent.num = 100 * LastEvent.den

C8_Witness ==
    /\ pc = "done"
    /\ \E i \in DOMAIN dbWrites :
          dbWrites[i].table = "analysis_frames" /\ ~dbWrites[i].ok
    /\ \E i \in DOMAIN dbWrites :
          dbWrites[i].table = "analysis_frames" /\ dbWrites[i].ok
    /\ LastEvent.kind = "results"

\* C9: in a run where no backend invocation throws, the backend is invoked
\* exactly once, and that invocation gets every resolved frame.
C9_SingleBackendCall ==
    (Succeeded /\ backend.kind = "succeeds") =>
        /\ Len(invocations) = 1
        /\ invocations[1].given = frames

FrameCountZero ==
    \/ ~form.frameCount.present
    \/ form.frameCount.numeric /\ form.frameCount.v = 0

\* C10: when frameCount is 0 or absent, the run emits progress 5 /
\* received_request and then only one error event; the backend is never
\* invoked, no temp directory is staged, the Record Store gets no insert.
C10_ZeroFramesFails ==
    FrameCountZero =>
        /\ invocations = << >>
        /\ tempDir = "absent"
        /\ dbWrites = << >>
        /\ Len(events) <= 2
        /\ Len(events) >= 1 => events[1] = ProgressEv(5, 1, "received_request", 0)
        /\ Len(events) = 2 => events[2].kind = "error"
        /\ (Len(events) = 2) <=> (pc = "done")
        /\ pc # "done" => ENABLED Next

C10_Witness ==
    /\ ~form.frameCount.present
    /\ pc = "done"
    /\ Len(events) = 2
    /\ events[2] = ErrorEv("No frames provided")

\* The frame resolution loop is over and it resolved no frame.
ZeroFramesResolved ==
    /\ pc \in {"analyze", "saveSession", "saveFrame", "cleanup", "done"}
    /\ frames = << >>
    /\ tempDir # "absent"

\* C11: when zero frames are resolved (frameCount >= 1 with no frame field
\* attached, frameCount negative or not a number), the run ends with an error
\* event and the backend is never invoked.
C11_ZeroResolvedFails ==
    ZeroFramesResolved =>
        /\ invocations = << >>
        /\ ResultsIndices = {}
        /\ pc = "done" => LastEvent.kind = "error"

\* C12: when the fetch of one remotely referenced frame answers non-2xx, the
\* resolution is aborted as a whole: the stream ends with one error event and
\* no results event, the backend is never invoked and the Record Store gets
\* no insert.
C12_FetchFailureAborts ==
    fetchFailed =>
        /\ pc = "done"
        /\ closed
        /\ Cardinality(ErrorIndices) = 1
        /\ LastEvent = ErrorEv("Failed to load frame from storage")
        /\ ResultsIndices = {}
        /\ invocations = << >>
        /\ dbWrites = << >>

\* The fetch failed in the second batch, after a first batch was resolved.
C12_Witness ==
    /\ fetchFailed
    /\ pc = "done"
    /\ batchStart = BATCH_SIZE
    /\ Len(frames) = BATCH_SIZE

\* C13: on both terminal states the keep-alive timer is cancelled before the
\* stream is closed, and no keep-alive comment is enqueued (no callback of
\* the timer even runs) after the terminal event.
C13_TimerClearedAtTerminal ==
    /\ closed => heartbeat = "cleared"
    /\ TerminalIndices # {} => heartbeat = "cleared"
    /\ \A k \in DOMAIN keepAlives : ~keepAlives[k].late
    /\ (closed \/ TerminalIndices # {}) => ~ENABLED HeartbeatTick

\* A keep-alive comment went out during a run that then completed.
C13_Witness ==
    /\ Succeeded
    /\ heartbeat = "cleared"
    /\ keepAlives # << >>
    /\ keepAlives[1].sent

\* The handler's code has run to its end (normally, or by an exception that
\* left start()).
HandlerOver == pc \in {"done", "aborted"}

\* C14: when the client closes the connection while the handler runs, the
\* keep-alive timer of the request is cancelled by the time the handler is
\* over; no timer fires after that.
C14_TimerReleasedOnDisconnect ==
    (cancelled /\ HandlerOver) =>
        /\ heartbeat # "running"
        /\ ~ENABLED HeartbeatTick

----------------------------------------------------------------------------
(* Properties of the client stream consumer *)

\* The reader loop is over and the whole stream was handed over.
FullyRead == clientPc = "finished" /\ ~readFailed /\ pos = Len(stream)

\* The step events of the stream that end with a newline, in order.
SentSteps ==
    LET stepLines == SelectSeq(script,
            LAMBDA l : l.kind = "event" /\ l.ev.step # "" /\ l.eol # << >>)
    IN  [i \in DOMAIN stepLines |-> stepLines[i].ev.step]

\* A sequence with its exact consecutive duplicates collapsed.
RECURSIVE Collapse(_)
Collapse(q) ==
    IF Len(q) <= 1 THEN q
    ELSE IF q[1] = q[2] THEN Collapse(Tail(q))
    ELSE <<q[1]>> \o Collapse(Tail(q))

\* The entries of the step log that are server steps.
LoggedServerSteps == SelectSeq(consumer.steps, LAMBDA x : x \in StepNames)

\* C15: the step log, restricted to server steps, is the sequence of step
\* events received, in arrival order, with exact consecutive duplicates
\* collapsed (a step that comes back after another step is logged again).
C15_StepLogCollapsesDuplicates ==
    FullyRead => LoggedServerSteps = Collapse(SentSteps)

\* Steps A, A, B, A arrived and A, B, A were logged.
C15_Witness ==
    /\ FullyRead
    /\ SentSteps = <<"A", "A", "B", "A">>
    /\ LoggedServerSteps = <<"A", "B", "A">>

\* What the consumer shows: progress, step log, completion calls, alerts.
Outcome(c) ==
    [uploadProgress |-> c.uploadProgress, steps |-> c.steps,
     completions |-> c.completions, alerts |-> c.alerts]

\* C16: whatever the cut of the stream into read chunks, the consumer is,
\* after each read, where it is after one read of all the characters handed
\* over so far, and it ends with the same outcome.
C16_ChunkingIndependent ==
    /\ clientPc = "reading" =>
          consumer = OnChunk(InitialConsumer, SubSeq(stream, 1, pos))
    /\ (clientPc = "finished" /\ ~readFailed) =>
          Outcome(consumer) =
              Outcome(OnDone(OnChunk(InitialConsumer, SubSeq(stream, 1, pos))))

\* A newline-terminated completed run, read in chunks of which one ended
\* inside a 'data: ' line.
C16_Witness ==
    /\ FullyRead
    /\ splitInLine
    /\ script = CompletedRun
    /\ consumer.completions = <<"results">>

\* The stream ends with a 'data: ' line of a well-formed event that has no
\* terminating newline.
TrailingEvent ==
    /\ script # << >>
    /\ script[Len(script)].kind = "event"
    /\ script[Len(script)].eol = << >>

\* C17: a final 'data: ' line without terminating newline is processed as a
\* terminated one is, for every event kind.
C17_TrailingLineProcessed ==
    (FullyRead /\ TrailingEvent) =>
        Outcome(consumer) =
            Outcome(OnDone(OnChunk(InitialConsumer, stream \o <<LF>>)))

\* The consumer has processed a results event.
ResultsProcessed ==
    \E i \in DOMAIN consumer.completions : consumer.completions[i] = "results"

\* C18: once a results event was processed, no later step of the reader loop
\* changes the surfaced result, the progress value or the step log.
C18_NothingAfterResults ==
    [][ResultsProcessed =>
          /\ consumer'.completions = consumer.completions
          /\ consumer'.uploadProgress = consumer.uploadProgress
          /\ consumer'.steps = consumer.steps]_vars

\* The terminal events among the lines of the stream.
TerminalLines ==
    SelectSeq(script, LAMBDA l : l.kind = "event" /\ (l.ev.results \/ l.ev.error))

\* Every line of the stream ends with a newline, as the orchestrator writes it.
NewlineTerminated == \A i \in DOMAIN script : script[i].eol # << >>

\* C19: when the stream is delivered in full and carries one terminal event,
\* the completion callback is called exactly once: with the results on a
\* results event, with null and the message shown on an error event; the call
\* is made by the time the last character was read.
C19_CallbackExactlyOnce ==
    (NewlineTerminated /\ Len(TerminalLines) = 1) =>
        /\ FullyRead =>
              IF TerminalLines[1].ev.results
              THEN consumer.completions = <<"results">> /\ consumer.alerts = << >>
              ELSE consumer.completions = <<"null">>
                   /\ consumer.alerts = <<"Error: e">>
        /\ clientPc = "reading" =>
              /\ Len(consumer.completions) <= 1
              /\ pos = Len(stream) => Len(consumer.completions) = 1

\* A failed run delivered in full: one call, with null.
C19_Witness ==
    /\ FullyRead
    /\ script = FailedRun
    /\ consumer.completions = <<"null">>
    /\ consumer.alerts = <<"Error: e">>

\* The stream without its keep-alive comments, blank lines and invalid-JSON
\* data lines.
WithoutNoise == SelectSeq(script, LAMBDA l : l.kind = "event")

\* C20: a keep-alive comment, a blank line or a 'data: ' line with invalid
\* JSON changes nothing, and the events after it are processed: the outcome
\* is that of the same stream without these lines.
C20_NoiseLinesIgnored ==
    FullyRead =>
        Outcome(consumer) =
            Outcome(OnDone(OnChunk(InitialConsumer, Render(WithoutNoise))))

\* An invalid-JSON line and a comment came before the results event.
C20_Witness ==
    /\ FullyRead
    /\ script = <<BadLine, CommentLine, ResultsLine>>
    /\ consumer.completions = <<"results">>
    /\ consumer.uploadProgress = 10000

----------------------------------------------------------------------------
(* Properties of a submission *)

\* The submissions that are to be rejected: video mode with no file, with a
\* file whose type is not on the allow-list or whose size exceeds 100 MiB;
\* DICOM mode with no file; a problem statement that is blank.
MustReject(sub) ==
    \/ /\ sub.uploadMode = "video"
       /\ \/ ~sub.file.selected
          \/ sub.file.type \notin {"video/mp4", "video/avi", "video/mov", "video/wmv"}
          \/ sub.file.size > 104857600
    \/ sub.uploadMode = "dicom" /\ sub.dicomFiles = << >>
    \/ \A i \in DOMAIN sub.problem : sub.problem[i] \in WhiteSpace

\* C21: a submission with no video file, a file of a type outside the
\* allow-list or of more than 100 MiB, no DICOM file, or a blank problem
\* statement is rejected: onAnalysisStart is never called and no network call
\* (storage upload, POST) is ever made; the component alerts and returns.
C21_InvalidNeverTransmits ==
    MustReject(submission) =>
        /\ ui.started = 0
        /\ ui.network = << >>
        /\ pc = "client"
        /\ submitPc \in {"ready", "rejected"}
        /\ submitPc = "rejected" => Len(ui.alerts) = 1

\* C22: every submission that is transmitted to the analysis endpoint
\* carries a frameCount of at least 1, in video mode and in DICOM mode.
C22_TransmittedHasFrames ==
    submitPc = "sent" => TextToNumber(formData.frameCount) >= 1

\* The frame_<i> fields of the form that was built.
AttachedKeys == {formData.frameKeys[k] : k \in DOMAIN formData.frameKeys}

\* C23: in the submission the client transmits, frameCount is the number of
\* frame_ fields attached: frame_0 .. frame_<frameCount-1> are all there, each
\* once, and none with a higher index; and when the POST handler has gone
\* through its frame loop it has resolved exactly these frameCount frames, in
\* order.
C23_FrameCountMatchesFrames ==
    submitPc = "sent" =>
        LET n == TextToNumber(formData.frameCount)
        IN  /\ Len(formData.frameKeys) = n
            /\ AttachedKeys = 0..(n - 1)
            /\ Len(frames) <= n
            /\ pc = "analyze" => frames = [k \in 1..n |-> k - 1]

\* A video of more than two server batches of frames was transmitted and
\* resolved.
C23_Witness ==
    /\ submitPc = "sent"
    /\ pc = "analyze"
    /\ Len(extractor.frames) > 2 * BATCH_SIZE
    /\ Len(frames) = Len(extractor.frames)

----------------------------------------------------------------------------
(* Properties of the storage uploads *)

\* C24: the uploads of a batch are issued only when every upload of the
\* batches before it has settled, so never more than batchSize uploads are in
\* flight; and no batch is issued after a batch in which an upload failed.
C24_BatchesInTurn ==
    /\ Cardinality(batches.inFlight) <= batches.batchSize
    /\ \A n \in 1..(Len(batches.issued) - 1) :
         /\ batches.issued[n] \cap batches.inFlight = {}
         /\ batches.issued[n] \cap batches.rejected = {}

\* A second batch failed while others of its uploads were still in flight,
\* and the call has thrown.
C24_Witness ==
    /\ batches.st = "thrown"
    /\ Len(batches.issued) = 2
    /\ batches.inFlight # {}
    /\ Len(batches.issued) * batches.batchSize < batches.total

\* the batches the call has got past: every upload fulfilled, results pushed
CompletedBatches ==
    {n \in 1..Len(batches.issued) :
        /\ batches.issued[n] \subseteq batches.fulfilled
        /\ n < Len(batches.issued) \/ batches.st = "returned"}

\* the number of frames of batches 1..k
FramesUpTo(k) == Cardinality(UNION {batches.issued[n] : n \in 1..k})

\* C25: the progress callback is called exactly once per completed batch,
\* with (frames of all completed batches, total); never for a batch in which
\* an upload failed; the counts strictly increase; on success the last call
\* reports (total, total).  Without a callback nothing is reported.
C25_ProgressPerCompletedBatch ==
    LET p == batches.progress
    IN  /\ ~batches.onProgress => p = << >>
        /\ batches.onProgress =>
             /\ Len(p) = Cardinality(CompletedBatches)
             /\ \A k \in DOMAIN p : p[k] = <<FramesUpTo(k), batches.total>>
             /\ \A k \in 1..(Len(p) - 1) : p[k][1] < p[k + 1][1]
             /\ \A n \in 1..Len(batches.issued) :
                  batches.issued[n] \cap batches.rejected # {} => Len(p) < n
             /\ batches.st = "returned" /\ batches.total > 0 =>
                  p[Len(p)] = <<batches.total, batches.total>>

\* A call with a callback returned after three batches, the last one short.
C25_Witness ==
    /\ batches.st = "returned"
    /\ batches.onProgress
    /\ Len(batches.progress) = 3
    /\ batches.total % batches.batchSize # 0

\* The answers of the storage client that the retry policy calls transient:
\* an error, returned or thrown, whose message contains 'timeout', 'network',
\* '503' or '504'.
TransientAnswer(a) ==
    /\ a.kind \in {"error", "throw"}
    /\ \E needle \in {NeedleTimeout, NeedleNetwork, Needle503, Needle504} :
         Includes(a.error.message, needle)

\* the delays baseDelay * 2^attempt before retries 1..n
RetryDelays(u, n) == [k \in 1..n |-> u.baseDelay * Pow2(k - 1)]

\* C26: when every attempt of an item fails with a transient error, the
\* upload is retried maxRetries times, the delay before retry k+1 is
\* baseDelay * 2^k, there is no sleep after the last attempt, and the error
\* of the last attempt is what the call throws.
C26_TransientRetriedMaxTimes ==
    LET u == uploadRetry
    IN  (/\ u.st = "thrown"
         /\ \A k \in DOMAIN u.attempts : TransientAnswer(u.attempts[k])) =>
            /\ Len(u.attempts) = u.maxRetries + 1
            /\ [k \in DOMAIN u.sleeps |-> u.sleeps[k].delay]
                   = RetryDelays(u, u.maxRetries)
            /\ u.thrown = Original(u.attempts[Len(u.attempts)].error)

\* An error, returned or thrown, whose message matches none of the patterns.
NonMatching(a) == a.kind \in {"error", "throw"} /\ ~TransientAnswer(a)

\* The k-th attempt was the last one, its error is what the call threw, and
\* no sleep followed it.
PropagatedAtOnce(k) ==
    LET u == uploadRetry
    IN  /\ k = Len(u.attempts)
        /\ u.st = "thrown"
        /\ u.thrown = Original(u.attempts[k].error)
        /\ \A s \in DOMAIN u.sleeps : u.sleeps[s].after < k

\* C27 as stated: an error whose message matches none of the transient
\* patterns propagates after the one attempt that met it, with no sleep.
C27_Original ==
    \A k \in DOMAIN uploadRetry.attempts :
        NonMatching(uploadRetry.attempts[k]) => PropagatedAtOnce(k)

\* C27: an error whose message matches none of the transient patterns and
\* whose name is not 'NetworkError', returned or thrown, propagates as it is
\* after the one attempt that met it, with no sleep and no further attempt.
C27_NonTransientPropagates ==
    \A k \in DOMAIN uploadRetry.attempts :
        LET a == uploadRetry.attempts[k]
        IN  NonMatching(a) /\ a.error.name # "NetworkError" => PropagatedAtOnce(k)

\* With three attempts allowed, a returned 'denied' error ended the call at
\* the first.
C27_Witness ==
    /\ uploadRetry.maxRetries = 3
    /\ uploadRetry.attempts = <<Returned(ErrDenied)>>
    /\ uploadRetry.st = "thrown"
    /\ uploadRetry.sleeps = << >>

----------------------------------------------------------------------------
(* Properties of the frame sources *)

\* The double nearest to k / rate (ties to even): the value of the
\* expression k / rate.  k / rate is 0 or at least 1/8, and below 32.
DoubleQuotient(k, rate) ==
    LET n4 == 1024 * k
        q4 == n4 \div rate
        n3 == (n4 % rate) * LimbBase
        q3 == n3 \div rate
        n2 == (n3 % rate) * LimbBase
        q2 == n2 \div rate
        n1 == (n2 % rate) * LimbBase
        q1 == n1 \div rate
        rest == n1 % rate
        floor == <<q1, q2, q3, q4>>
        drop == IF TimeBits(floor) > 53 THEN TimeBits(floor) - 53 ELSE 0
        unit == 2 ^ drop
        low == q1 % unit
        odd == (q1 \div unit) % 2 = 1
        twice == 2 * (low * rate + rest)
        up == twice > unit * rate \/ (twice = unit * rate /\ odd)
        kept == [floor EXCEPT ![1] = q1 - low]
    IN  IF up THEN ExactSum(kept, <<unit, 0, 0, 0>>) ELSE kept

\* C28: in the output of extractFrames the frameNumber values are 1..N in
\* order, and frame k carries the timestamp (k - 1) / fps.
C28_NumberedAndTimed ==
    \A k \in DOMAIN extractor.frames :
        /\ extractor.frames[k].frameNumber = k
        /\ extractor.frames[k].timestamp = DoubleQuotient(k - 1, extractor.fps)

\* video.duration of the running call, in whole seconds
DurationSeconds == extractor.duration[4] \div 1024

\* the number of k >= 0 with k / fps < D
SamplesBefore(d, rate) == Cardinality({k \in 0..(d * rate) : k < d * rate})

\* C29: extractFrames yields min(maxFrames, number of k >= 0 with
\* k / fps < D) frames; a 20-second video at fps 5 with maxFrames 150 yields
\* exactly 100 frames.
C29_FrameCount ==
    extractor.st = "resolved" =>
        Len(extractor.frames)
            = Min(extractor.maxFrames, SamplesBefore(DurationSeconds, extractor.fps))

\* the instance number a file is sorted by: its tag, 0 when it has none
SortKey(file) == IF file.tag.kind = "int" THEN file.tag.v ELSE 0

\* C30: processFiles returns one entry per input file that parses, the
\* files that fail being skipped without ending the call; the entries are in
\* ascending order of instance number, a missing one counting as 0, and
\* entries of equal instance number are in input order.
C30_ParsedFilesSorted ==
    LET files == dicom.files
        r == dicom.results
        parsed == {i \in DOMAIN files : files[i].parses}
    IN  /\ dicom.st = "running" => dicom.next <= Len(files)
        /\ dicom.st = "returned" =>
             /\ Len(r) = Cardinality(parsed)
             /\ {r[k].file : k \in DOMAIN r} = parsed
             /\ \A j, k \in DOMAIN r :
                  j < k =>
                    \/ SortKey(files[r[j].file]) < SortKey(files[r[k].file])
                    \/ /\ SortKey(files[r[j].file]) = SortKey(files[r[k].file])
                       /\ r[j].file < r[k].file

\* Five files of which the third fails: four entries, the one without an
\* instance number first, the two of instance number 2 in input order.
C30_Witness ==
    /\ dicom.st = "returned"
    /\ dicom.files = PartialFailure
    /\ [k \in DOMAIN dicom.results |-> dicom.results[k].file] = <<2, 4, 1, 5>>

----------------------------------------------------------------------------
(* Properties of the response parsing *)

ResultsEmitted == \E i \in DOMAIN events : events[i].kind = "results"
ErrorEmitted == \E i \in DOMAIN events : events[i].kind = "error"
CallSucceeded == rs.label = "all-frames" /\ rs.st = "returned"

\* C31: once the all-frames backend call has returned, the handler never
\* emits an error event, and when it is done it has emitted a results event,
\* whatever text the call returned.
C31_SucceededCallYieldsResults ==
    CallSucceeded => /\ ~ErrorEmitted
                     /\ pc = "done" => ResultsEmitted

UrgencyLevels == {Low, Medium, High}

\* C32: the analysis carried by a results event has its urgency in
\* {low, medium, high} and every confidence within [0, 1] (0..100
\* hundredths), whatever the response text carried.
C32_ResultsNormalised ==
    ResultsEmitted =>
        /\ analysis.urgency \in UrgencyLevels
        /\ \A i \in DOMAIN analysis.confidences : analysis.confidences[i] \in 0..100

\* A results event for a response whose urgency is a number and whose
\* confidences are -0.5 and 1.5: they come out as 0 and 1.
C32_Witness ==
    /\ ResultsEmitted
    /\ \E text \in backend.texts :
         /\ Prop(text.json, "urgency") = JsNumber(300)
         /\ Prop(text.json, "frameAnalyses")
              = JsArray(<<FrameEntry(JsNumber(-50)), FrameEntry(JsNumber(150))>>)
    /\ analysis = [threw |-> FALSE, urgency |-> Low, confidences |-> <<0, 100>>]

----------------------------------------------------------------------------
(* Properties of the frames handed to the backend *)

Ascending(fr) == \A i, j \in DOMAIN fr : i < j => fr[i] < fr[j]

\* C33: the frames of every all-frames call of the backend are in ascending
\* frame-index order, also for a form that mixes remote references and
\* inline data within one batch.
C33_FramesAscending ==
    \A k \in DOMAIN invocations :
        invocations[k].label = "all-frames" => Ascending(invocations[k].given)

----------------------------------------------------------------------------
(* Properties of concurrent requests *)

Named(r) == requests[r].pc \notin {"none", "formData"}

\* C34: two requests handled at the same time never have the same session
\* identifier or the same frames directory, and neither overwrites or
\* deletes a file the other staged.
C34_RequestsKeepApart ==
    /\ \A r1, r2 \in Requests :
         (r1 # r2 /\ Named(r1) /\ Named(r2)) =>
             /\ requests[r1].sessionId # requests[r2].sessionId
             /\ requests[r1].framesDir # requests[r2].framesDir
    /\ disk.foreign = {}

----------------------------------------------------------------------------
(* Properties of the order of events *)

\* the steps the successful run is said to go through, for n batches
StepsBefore == <<"received_request", "parsing_form_data">>
StepsAfter ==
    <<"frames_saved", "preparing_model", "parsing_results", "finalizing",
      "saving_to_database", "cleanup">>
ClaimedSteps(n) ==
    [k \in 1..Len(StepsBefore) |-> <<StepsBefore[k], 0>>]
    \o [k \in 1..n |-> <<"loading_batch", k>>]
    \o [k \in 1..Len(StepsAfter) |-> <<StepsAfter[k], 0>>]

\* ceil(frameCount / 50); no batch for a frameCount that is no number
BatchCount == IF frameCount.nan THEN 0 ELSE Max(0, (frameCount.v + BATCH_SIZE - 1) \div BATCH_SIZE)

\* the step events emitted so far, each as <<step, batch number>>; the step
\* loading_frames_from_storage, emitted once before the first batch, is not
\* one of the steps the order is stated for
StepEvents ==
    LET named == SelectSeq(events, LAMBDA e :
                     e.kind = "progress" /\ e.step # "loading_frames_from_storage")
    IN  [k \in DOMAIN named |-> <<named[k].step, named[k].n>>]

\* every frame of the batches before batch n is in frames
ResolvedBefore(n) ==
    \A i \in DOMAIN form.kinds :
        (i < (n - 1) * BATCH_SIZE /\ form.kinds[i] # "none")
            => \E j \in DOMAIN frames : frames[j] = i

----------------------------------------------------------------------------
(* Properties of the retry loop inside the handler *)

\* the invocations of the withRetry call that is running or has ended
OwnInvocations == SelectSeq(invocations, LAMBDA c : c.label = rs.label)

Retryable(e) == isRetryableError(e).retryable

----------------------------------------------------------------------------
(* Properties of the DICOM metadata *)

BackendCalled == \E k \in DOMAIN invocations : invocations[k].label = "all-frames"

\* C37: when the backend is called, every metadata field that is non-blank
\* at the top level of the form is in dicomMetadata unchanged, and a field
\* that is blank at the top level holds the value of metadata_0 or is blank.
C37_TopLevelMetadataKept ==
    BackendCalled =>
        \A f \in MetadataFields :
            IF form.meta.top[f] # ""
            THEN dicomMetadata[f] = form.meta.top[f]
            ELSE dicomMetadata[f] \in {"", form.meta.metadata_0.fields[f]}

----------------------------------------------------------------------------
(* Properties of the temporary files *)

\* C38: when the stream is closed after the frames directory was created,
\* cleanup(framesDir) has run: the directory is deleted, or its deletion was
\* attempted and failed.
C38_TempFilesCleaned ==
    (closed /\ tempDir # "absent") => tempDir \in {"deleted", "undeleted"}

----------------------------------------------------------------------------
(* Properties of the persistence step *)

\* C39: the first insert of a run is the session row; every later insert is
\* a frame row and is sent only after every insert before it succeeded: a
\* failed session insert is followed by no frame insert, a failed frame
\* insert by no later frame insert; and at most one frame row is sent per
\* frame analysis.
C39_FramesAfterSession ==
    /\ dbWrites # << >> => dbWrites[1].table = "analysis_sessions"
    /\ \A k \in 2..Len(dbWrites) : dbWrites[k].table = "analysis_frames"
    /\ \A k \in 1..(Len(dbWrites) - 1) : dbWrites[k].ok
    /\ FrameWrites <= perFrame

\* Two frame analyses, the session insert succeeded, the first frame insert
\* failed: the run is done without a second frame insert.
C39_Witness ==
    /\ pc = "done"
    /\ ResultsEmitted
    /\ perFrame = 2
    /\ dbWrites = <<[table |-> "analysis_sessions", ok |-> TRUE],
                    [table |-> "analysis_frames", ok |-> FALSE]>>

----------------------------------------------------------------------------
(* Properties of the auto-windowing *)

\* what the darkest and the brightest pixel are to be stored as
Darkest == IF image.photometricInterpretation = "MONOCHROME1" THEN 255 ELSE 0
Brightest == IF image.photometricInterpretation = "MONOCHROME1" THEN 0 ELSE 255

\* C40 as stated: in every converted buffer a pixel of the minimum value is
\* stored as 0 and a pixel of the maximum value as 255 (255 and 0 for
\* MONOCHROME1), and every stored byte is in 0..255.
C40_Original ==
    image.st = "done" =>
        \A i \in DOMAIN image.data :
            /\ image.data[i] \in 0..255
            /\ image.pixelArray[i] = image.min => image.data[i] = Darkest
            /\ image.pixelArray[i] = image.max => image.data[i] = Brightest

\* C40, amended: the same for a buffer whose minimum is below its maximum;
\* in a buffer of one value (min = max) every pixel is stored as 0 (255 for
\* MONOCHROME1); every byte stored so far is in 0..255.
C40_MinMaxMapped ==
    /\ \A i \in DOMAIN image.data : image.data[i] \in 0..255
    /\ image.st = "done" =>
         \A i \in DOMAIN image.data :
             IF image.min < image.max
             THEN /\ image.pixelArray[i] = image.min => image.data[i] = Darkest
                  /\ image.pixelArray[i] = image.max => image.data[i] = Brightest
             ELSE image.data[i] = Darkest

\* An inverted 16-bit buffer 0, 65535, 4095: stored as 255, 0, 239.
C40_Witness ==
    /\ image.st = "done"
    /\ image.photometricInterpretation = "MONOCHROME1"
    /\ image.pixelArray = <<0, 65535, 4095>>
    /\ image.data = <<255, 0, 239>>

====
